---- MODULE Spec2Model ----
(***************************************************************************)
(* Model of the scd4x driver: the type-state sensor handle                 *)
(* (src/src/blocking/sensor.rs, src/src/async/sensor.rs), the command      *)
(* catalog (src/src/blocking/commands.rs), the five bus sequences          *)
(* (src/src/async/command.rs), the checksum (src/src/checksum.rs) and the  *)
(* word conversions (src/src/conversion.rs, src/src/util.rs).              *)
(*                                                                         *)
(* Physical quantities (f32 in the source) are integers: temperatures and  *)
(* humidities count 1/65536 of a degree or percent, the others 1/16 of     *)
(* their unit.  Every value the conversions produce from a word is such a  *)
(* multiple, and f32 represents it without rounding.                       *)
(***************************************************************************)
EXTENDS Integers, Sequences, FiniteSets, TLC

VARIABLES
    mode,        \* type-state of the handle: NoHandle before construction,
                 \* Idle / Measuring while it exists, Dropped once a failed
                 \* transition consumed it, Released after release()
    address,     \* Scd4x.address
    i2cOwner,    \* who owns the transport: caller / handle / dropped
    delayOwner,  \* who owns the delay function: caller / handle / dropped
    bus,         \* every call made to the transport and delay capabilities
    ctor,        \* the constructor that built the handle
    ctorAddress, \* the address the constructor was given (0x62 by default)
    lastOp,      \* the operation invoked last
    lastMode,    \* the mode the handle had when lastOp was invoked
    lastAddress, \* the address the handle had when lastOp was invoked
    lastStart,   \* Len(bus) when lastOp was invoked
    lastInput,   \* the argument lastOp was given (Unit when it takes none)
    result,      \* what lastOp returned
    ops          \* number of commands executed through the handle

vars == <<mode, address, i2cOwner, delayOwner, bus, ctor, ctorAddress,
          lastOp, lastMode, lastAddress, lastStart, lastInput, result, ops>>

----------------------------------------------------------------------------
(* Bounds of the model *)

\* the commands one handle lineage executes
MaxOps == 2

----------------------------------------------------------------------------
(* Program constants *)

DEFAULT_ADDRESS == 98

CRC8_POLYNOMIAL == 49

CRC8_INIT == 255

\* one degree Celsius and one percent of humidity, in the model's steps of
\* 1/65536
Scale == 65536

\* one ppm, one metre and one hectopascal, in the model's steps of 1/16
Fraction == 16

----------------------------------------------------------------------------
(* 8-bit arithmetic *)

RECURSIVE BitXor(_, _)
BitXor(a, b) ==
    IF a = 0 THEN b
    ELSE IF b = 0 THEN a
    ELSE (((a % 2) + (b % 2)) % 2) + 2 * BitXor(a \div 2, b \div 2)

RECURSIVE BitAnd(_, _)
BitAnd(a, b) ==
    IF a = 0 \/ b = 0 THEN 0
    ELSE ((a % 2) * (b % 2)) + 2 * BitAnd(a \div 2, b \div 2)

\* u16::to_le_bytes
to_le_bytes(word) == <<word % 256, (word \div 256) % 256>>

\* u16::to_be_bytes
to_be_bytes(word) == <<(word \div 256) % 256, word % 256>>

----------------------------------------------------------------------------
(* checksum.rs *)

\* one turn of the inner loop of compute
CrcShift(crc) ==
    IF BitAnd(crc, 128) # 0
        THEN BitXor((crc * 2) % 256, CRC8_POLYNOMIAL)
        ELSE (crc * 2) % 256

RECURSIVE CrcShifts(_, _)
CrcShifts(crc, n) == IF n = 0 THEN crc ELSE CrcShifts(CrcShift(crc), n - 1)

\* the inner loop of compute (eight turns), for every value crc can have
\* when the loop starts
CrcInnerLoop == [crc \in 0..255 |-> CrcShifts(crc, 8)]

\* the body of the outer loop of compute, for one datum
CrcByte(crc, datum) == CrcInnerLoop[BitXor(crc, datum)]

\* the second byte is left out of the checksum
compute_first_byte_only(data) == CrcByte(CRC8_INIT, data[1])

\* crc starts from 0x00
compute_from_zero(data) == CrcByte(CrcByte(0, data[1]), data[2])

compute(data) == CrcByte(CrcByte(CRC8_INIT, data[1]), data[2])

\* results of the fallible functions
Ok(v) == [tag |-> "Ok", val |-> v]

ChecksumMismatch(a, e) == [tag |-> "ChecksumMismatch", actual |-> a, expected |-> e]

I2cError(kind) == [tag |-> "I2c", kind |-> kind]

Unit == <<>>

\* the two fields of the error filled the other way round
verify_fields_swapped(data, expected) ==
    LET actual == compute(data)
    IN  IF actual = expected THEN Ok(Unit) ELSE ChecksumMismatch(expected, actual)

\* the comparison of the two checksums inverted
verify_inverted(data, expected) ==
    LET actual == compute(data)
    IN  IF actual # expected THEN Ok(Unit) ELSE ChecksumMismatch(actual, expected)

verify(data, expected) ==
    LET actual == compute(data)
    IN  IF actual = expected THEN Ok(Unit) ELSE ChecksumMismatch(actual, expected)

----------------------------------------------------------------------------
(* util.rs *)

\* the word without the call of verify_checksum
buffer_to_word_unverified(byte0, byte1, byte2) == Ok(byte0 * 256 + byte1)

\* the word is assembled low byte first
buffer_to_word_low_byte_first(byte0, byte1, byte2) ==
    LET word == byte1 * 256 + byte0
        checked == verify(<<byte0, byte1>>, byte2)
    IN  IF checked.tag = "Ok" THEN Ok(word) ELSE checked

buffer_to_word(byte0, byte1, byte2) ==
    LET word == byte0 * 256 + byte1
        checked == verify(<<byte0, byte1>>, byte2)
    IN  IF checked.tag = "Ok" THEN Ok(word) ELSE checked

\* only the checksum of the first group is verified
buffer_to_three_words_first_verified(buffer) ==
    LET word0 == buffer_to_word(buffer[1], buffer[2], buffer[3])
    IN  IF word0.tag # "Ok" THEN word0
        ELSE Ok(<<word0.val, buffer[4] * 256 + buffer[5],
                  buffer[7] * 256 + buffer[8]>>)

\* the groups are verified from the last to the first
buffer_to_three_words_last_first(buffer) ==
    LET word0 == buffer_to_word(buffer[1], buffer[2], buffer[3])
        word1 == buffer_to_word(buffer[4], buffer[5], buffer[6])
        word2 == buffer_to_word(buffer[7], buffer[8], buffer[9])
    IN  IF word2.tag # "Ok" THEN word2
        ELSE IF word1.tag # "Ok" THEN word1
        ELSE IF word0.tag # "Ok" THEN word0
        ELSE Ok(<<word0.val, word1.val, word2.val>>)

buffer_to_three_words(buffer) ==
    LET word0 == buffer_to_word(buffer[1], buffer[2], buffer[3])
        word1 == buffer_to_word(buffer[4], buffer[5], buffer[6])
        word2 == buffer_to_word(buffer[7], buffer[8], buffer[9])
    IN  IF word0.tag # "Ok" THEN word0
        ELSE IF word1.tag # "Ok" THEN word1
        ELSE IF word2.tag # "Ok" THEN word2
        ELSE Ok(<<word0.val, word1.val, word2.val>>)

----------------------------------------------------------------------------
(* conversion.rs *)

\* the cast `as u16` of an f32 whose integer part (rounded toward zero) is
\* whole: it saturates at the ends of the u16 range
\* the cast keeps the low 16 bits
WrapU16(whole) == whole % 65536

SaturateU16(whole) ==
    IF whole < 0 THEN 0
    ELSE IF whole > 65535 THEN 65535
    ELSE whole

\* the integer part of a quantity counted in 1/unit steps, rounded toward
\* zero
Truncate(value, unit) ==
    IF value < 0 THEN 0 - ((0 - value) \div unit) ELSE value \div unit

\* u64 values are four 16-bit limbs, most significant first
U64(l3, l2, l1, l0) == <<l3, l2, l1, l0>>

\* u64 addition, wrapping
U64Add(x, y) ==
    LET s0 == x[4] + y[4]
        s1 == x[3] + y[3] + (s0 \div 65536)
        s2 == x[2] + y[2] + (s1 \div 65536)
        s3 == x[1] + y[1] + (s2 \div 65536)
    IN  <<s3 % 65536, s2 % 65536, s1 % 65536, s0 % 65536>>

words_to_serial_number_word1_first(word0, word1, word2) ==
    U64Add(U64Add(U64(0, word1, 0, 0), U64(0, 0, word0, 0)),
           U64(0, 0, 0, word2))

words_to_serial_number(word0, word1, word2) ==
    U64Add(U64Add(U64(0, word0, 0, 0), U64(0, 0, word1, 0)),
           U64(0, 0, 0, word2))

word_to_temperature(word) == (175 * word) - 45 * Scale

word_to_humidity(word) == 100 * word

words_to_sample_humidity_first(word0, word1, word2) ==
    [co2 |-> word0 * Fraction,
     temperature |-> word_to_temperature(word2),
     humidity |-> word_to_humidity(word1)]

words_to_sample(word0, word1, word2) ==
    [co2 |-> word0 * Fraction,
     temperature |-> word_to_temperature(word1),
     humidity |-> word_to_humidity(word2)]

word_to_altitude(word) == word * Fraction

altitude_to_word_rounded(altitude) ==
    SaturateU16((2 * altitude + Fraction) \div (2 * Fraction))

altitude_to_word(altitude) == SaturateU16(Truncate(altitude, Fraction))

word_to_temperature_offset(word) == 175 * word

temperature_offset_to_word_176(temperature_offset) ==
    SaturateU16(Truncate(temperature_offset, 176))

\* (65536 * celsius) / 175 has the integer part of temperature_offset / 175
\* when celsius is temperature_offset / 65536
temperature_offset_to_word(temperature_offset) ==
    SaturateU16(Truncate(temperature_offset, 175))

ambient_pressure_to_word(ambient_pressure) ==
    SaturateU16(Truncate(ambient_pressure, Fraction))

signed_word_to_co2(word) == word * Fraction

co2_to_word(co2) == SaturateU16(Truncate(co2, Fraction))

----------------------------------------------------------------------------
(* commands.rs: the command catalog *)

Commands ==
    {"Reinitialize", "GetSerialNumber", "ReadMeasurement",
     "StartPeriodicMeasurement", "StopPeriodicMeasurement",
     "GetTemperatureOffset", "SetTemperatureOffset",
     "GetSensorAltitude", "SetSensorAltitude", "SetAmbientPressure",
     "StartLowPowerPeriodicMeasurement", "GetDataReadyStatus",
     "PerformSelfTest", "MeasureSingleShot", "MeasureSingleShotRhtOnly",
     "PersistSettings", "PerformForcedRecalibration",
     "GetAutomaticSelfCalibrationEnabled",
     "SetAutomaticSelfCalibrationEnabled", "PerformFactoryReset"}

\* MeasureSingleShotRhtOnly with the register of MeasureSingleShot
register_copied(cmd) ==
    CASE cmd = "Reinitialize" -> 13894                        \* 0x3646
      [] cmd = "GetSerialNumber" -> 13954                     \* 0x3682
      [] cmd = "ReadMeasurement" -> 60421                     \* 0xec05
      [] cmd = "StartPeriodicMeasurement" -> 8625             \* 0x21b1
      [] cmd = "StopPeriodicMeasurement" -> 16262             \* 0x3f86
      [] cmd = "GetTemperatureOffset" -> 8984                 \* 0x2318
      [] cmd = "SetTemperatureOffset" -> 9245                 \* 0x241d
      [] cmd = "GetSensorAltitude" -> 8994                    \* 0x2322
      [] cmd = "SetSensorAltitude" -> 9255                    \* 0x2427
      [] cmd = "SetAmbientPressure" -> 57344                  \* 0xe000
      [] cmd = "StartLowPowerPeriodicMeasurement" -> 8620     \* 0x21ac
      [] cmd = "GetDataReadyStatus" -> 58552                  \* 0xe4b8
      [] cmd = "PerformSelfTest" -> 13881                     \* 0x3639
      [] cmd = "MeasureSingleShot" -> 8605                    \* 0x219d
      [] cmd = "MeasureSingleShotRhtOnly" -> 8605             \* 0x219d
      [] cmd = "PersistSettings" -> 13845                     \* 0x3615
      [] cmd = "PerformForcedRecalibration" -> 13871          \* 0x362f
      [] cmd = "GetAutomaticSelfCalibrationEnabled" -> 8979   \* 0x2313
      [] cmd = "SetAutomaticSelfCalibrationEnabled" -> 9238   \* 0x2416
      [] cmd = "PerformFactoryReset" -> 13874                 \* 0x3632

register(cmd) ==
    CASE cmd = "Reinitialize" -> 13894                        \* 0x3646
      [] cmd = "GetSerialNumber" -> 13954                     \* 0x3682
      [] cmd = "ReadMeasurement" -> 60421                     \* 0xec05
      [] cmd = "StartPeriodicMeasurement" -> 8625             \* 0x21b1
      [] cmd = "StopPeriodicMeasurement" -> 16262             \* 0x3f86
      [] cmd = "GetTemperatureOffset" -> 8984                 \* 0x2318
      [] cmd = "SetTemperatureOffset" -> 9245                 \* 0x241d
      [] cmd = "GetSensorAltitude" -> 8994                    \* 0x2322
      [] cmd = "SetSensorAltitude" -> 9255                    \* 0x2427
      [] cmd = "SetAmbientPressure" -> 57344                  \* 0xe000
      [] cmd = "StartLowPowerPeriodicMeasurement" -> 8620     \* 0x21ac
      [] cmd = "GetDataReadyStatus" -> 58552                  \* 0xe4b8
      [] cmd = "PerformSelfTest" -> 13881                     \* 0x3639
      [] cmd = "MeasureSingleShot" -> 8605                    \* 0x219d
      [] cmd = "MeasureSingleShotRhtOnly" -> 8598             \* 0x2196
      [] cmd = "PersistSettings" -> 13845                     \* 0x3615
      [] cmd = "PerformForcedRecalibration" -> 13871          \* 0x362f
      [] cmd = "GetAutomaticSelfCalibrationEnabled" -> 8979   \* 0x2313
      [] cmd = "SetAutomaticSelfCalibrationEnabled" -> 9238   \* 0x2416
      [] cmd = "PerformFactoryReset" -> 13874                 \* 0x3632

\* in milliseconds
max_duration(cmd) ==
    CASE cmd = "Reinitialize" -> 20
      [] cmd = "StartPeriodicMeasurement" -> 0
      [] cmd = "StopPeriodicMeasurement" -> 500
      [] cmd = "StartLowPowerPeriodicMeasurement" -> 0
      [] cmd = "PerformSelfTest" -> 10000
      [] cmd = "MeasureSingleShot" -> 5000
      [] cmd = "MeasureSingleShotRhtOnly" -> 50
      [] cmd = "PersistSettings" -> 800
      [] cmd = "PerformForcedRecalibration" -> 800
      [] cmd = "PerformFactoryReset" -> 1200
      [] OTHER -> 1

SequenceTypeOf(cmd) ==
    CASE cmd \in {"Reinitialize", "StartPeriodicMeasurement",
                  "StopPeriodicMeasurement",
                  "StartLowPowerPeriodicMeasurement", "MeasureSingleShot",
                  "MeasureSingleShotRhtOnly", "PersistSettings",
                  "PerformFactoryReset"} -> "SendCommandSequence"
      [] cmd \in {"GetSerialNumber", "ReadMeasurement"} -> "ReadThreeWordsSequence"
      [] cmd \in {"GetTemperatureOffset", "GetSensorAltitude",
                  "GetDataReadyStatus", "PerformSelfTest",
                  "GetAutomaticSelfCalibrationEnabled"} -> "ReadWordSequence"
      [] cmd \in {"SetTemperatureOffset", "SetSensorAltitude",
                  "SetAmbientPressure",
                  "SetAutomaticSelfCalibrationEnabled"} -> "WriteWordSequence"
      [] cmd = "PerformForcedRecalibration" -> "SendCommandAndFetchResultSequence"

preprocess(cmd, input) ==
    CASE cmd = "SetTemperatureOffset" -> temperature_offset_to_word(input)
      [] cmd = "SetSensorAltitude" -> altitude_to_word(input)
      [] cmd = "SetAmbientPressure" -> ambient_pressure_to_word(input)
      [] cmd = "PerformForcedRecalibration" -> co2_to_word(input)
      [] cmd = "SetAutomaticSelfCalibrationEnabled" -> IF input THEN 1 ELSE 0
      [] OTHER -> input

\* `word.wrapping_sub(0x8000) as i16`
WrappedSigned(word) ==
    LET wrapped_word == (word + 65536 - 32768) % 65536
    IN  IF wrapped_word >= 32768 THEN wrapped_word - 65536 ELSE wrapped_word

None == [some |-> FALSE]

Some(v) == [some |-> TRUE, value |-> v]

postprocess_ready_all_bits(cmd, output) ==
    CASE cmd = "GetSerialNumber" ->
            words_to_serial_number(output[1], output[2], output[3])
      [] cmd = "ReadMeasurement" ->
            words_to_sample(output[1], output[2], output[3])
      [] cmd = "GetTemperatureOffset" -> word_to_temperature_offset(output)
      [] cmd = "GetSensorAltitude" -> word_to_altitude(output)
      [] cmd = "GetDataReadyStatus" -> BitAnd(output, 65535) # 0
      [] cmd = "PerformSelfTest" -> output = 0
      [] cmd = "PerformForcedRecalibration" ->
            IF output = 65535 THEN None
            ELSE Some(signed_word_to_co2(WrappedSigned(output)))
      [] cmd = "GetAutomaticSelfCalibrationEnabled" -> BitAnd(output, 1) # 0
      [] OTHER -> output

postprocess_recalibration_unsigned(cmd, output) ==
    CASE cmd = "GetSerialNumber" ->
            words_to_serial_number(output[1], output[2], output[3])
      [] cmd = "ReadMeasurement" ->
            words_to_sample(output[1], output[2], output[3])
      [] cmd = "GetTemperatureOffset" -> word_to_temperature_offset(output)
      [] cmd = "GetSensorAltitude" -> word_to_altitude(output)
      [] cmd = "GetDataReadyStatus" -> BitAnd(output, 2047) # 0
      [] cmd = "PerformSelfTest" -> output = 0
      [] cmd = "PerformForcedRecalibration" ->
            IF output = 65535 THEN None
            ELSE Some(signed_word_to_co2((output + 32768) % 65536))
      [] cmd = "GetAutomaticSelfCalibrationEnabled" -> BitAnd(output, 1) # 0
      [] OTHER -> output

postprocess_calibration_any_bit(cmd, output) ==
    CASE cmd = "GetSerialNumber" ->
            words_to_serial_number(output[1], output[2], output[3])
      [] cmd = "ReadMeasurement" ->
            words_to_sample(output[1], output[2], output[3])
      [] cmd = "GetTemperatureOffset" -> word_to_temperature_offset(output)
      [] cmd = "GetSensorAltitude" -> word_to_altitude(output)
      [] cmd = "GetDataReadyStatus" -> BitAnd(output, 2047) # 0
      [] cmd = "PerformSelfTest" -> output = 0
      [] cmd = "PerformForcedRecalibration" ->
            IF output = 65535 THEN None
            ELSE Some(signed_word_to_co2(WrappedSigned(output)))
      [] cmd = "GetAutomaticSelfCalibrationEnabled" -> output # 0
      [] OTHER -> output

postprocess(cmd, output) ==
    CASE cmd = "GetSerialNumber" ->
            words_to_serial_number(output[1], output[2], output[3])
      [] cmd = "ReadMeasurement" ->
            words_to_sample(output[1], output[2], output[3])
      [] cmd = "GetTemperatureOffset" -> word_to_temperature_offset(output)
      [] cmd = "GetSensorAltitude" -> word_to_altitude(output)
      [] cmd = "GetDataReadyStatus" -> BitAnd(output, 2047) # 0
      [] cmd = "PerformSelfTest" -> output = 0
      [] cmd = "PerformForcedRecalibration" ->
            IF output = 65535 THEN None
            ELSE Some(signed_word_to_co2(WrappedSigned(output)))
      [] cmd = "GetAutomaticSelfCalibrationEnabled" -> BitAnd(output, 1) # 0
      [] OTHER -> output

----------------------------------------------------------------------------
(* command.rs: the bus sequences *)

\* calls to the transport and delay capabilities, as recorded in bus
WriteCall(addr, data, outcome) ==
    [kind |-> "write", address |-> addr, data |-> data, ms |-> 0,
     outcome |-> outcome]

WaitCall(ms) ==
    [kind |-> "wait", address |-> 0, data |-> <<>>, ms |-> ms,
     outcome |-> "Ok"]

ReadCall(addr, data, outcome) ==
    [kind |-> "read", address |-> addr, data |-> data, ms |-> 0,
     outcome |-> outcome]

\* `delay.as_secs() as u32`
DelayMsFromSeconds(delay) == delay \div 1000

\* `delay.as_micros() as u32`
DelayMsFromMicros(delay) == delay * 1000

\* `delay.as_millis() as u32`: keeps the low 32 bits, which is every bit
\* of a duration the catalog declares
DelayMs(delay) == delay

\* A sequence is given what the transport will answer: w, the outcome of
\* write ("Ok" or an error kind); r, the outcome of read; rdata, the bytes
\* the device puts in the read buffer.  It yields the capability calls it
\* makes and the value it returns.

SendCommandSequence(addr, delay, reg, input, w, r, rdata) ==
    LET buffer == to_be_bytes(reg)
    IN  IF w # "Ok"
        THEN [calls |-> <<WriteCall(addr, buffer, w)>>, out |-> I2cError(w)]
        ELSE [calls |-> <<WriteCall(addr, buffer, w), WaitCall(DelayMs(delay))>>,
              out |-> Ok(Unit)]

\* the word read is returned without the call of buffer_to_word
SendCommandAndFetchResultUnverified(addr, delay, reg, input, w, r, rdata) ==
    LET register_buffer == to_be_bytes(reg)
        input_buffer == to_be_bytes(input)
        checksum == compute(input_buffer)
        buffer == <<register_buffer[1], register_buffer[2],
                    input_buffer[1], input_buffer[2], checksum>>
    IN  IF w # "Ok"
        THEN [calls |-> <<WriteCall(addr, buffer, w)>>, out |-> I2cError(w)]
        ELSE IF r # "Ok"
        THEN [calls |-> <<WriteCall(addr, buffer, w), WaitCall(DelayMs(delay)),
                          ReadCall(addr, <<0, 0, 0>>, r)>>,
              out |-> I2cError(r)]
        ELSE [calls |-> <<WriteCall(addr, buffer, w), WaitCall(DelayMs(delay)),
                          ReadCall(addr, rdata, r)>>,
              out |-> Ok(rdata[1] * 256 + rdata[2])]

SendCommandAndFetchResultSequence(addr, delay, reg, input, w, r, rdata) ==
    LET register_buffer == to_be_bytes(reg)
        input_buffer == to_be_bytes(input)
        checksum == compute(input_buffer)
        buffer == <<register_buffer[1], register_buffer[2],
                    input_buffer[1], input_buffer[2], checksum>>
    IN  IF w # "Ok"
        THEN [calls |-> <<WriteCall(addr, buffer, w)>>, out |-> I2cError(w)]
        ELSE IF r # "Ok"
        THEN [calls |-> <<WriteCall(addr, buffer, w), WaitCall(DelayMs(delay)),
                          ReadCall(addr, <<0, 0, 0>>, r)>>,
              out |-> I2cError(r)]
        ELSE [calls |-> <<WriteCall(addr, buffer, w), WaitCall(DelayMs(delay)),
                          ReadCall(addr, rdata, r)>>,
              out |-> buffer_to_word(rdata[1], rdata[2], rdata[3])]

\* the buffer is verified whether or not the read succeeded
ReadWordSequenceVerifyingFailedRead(addr, delay, reg, input, w, r, rdata) ==
    LET buffer == to_be_bytes(reg)
    IN  IF w # "Ok"
        THEN [calls |-> <<WriteCall(addr, buffer, w)>>, out |-> I2cError(w)]
        ELSE IF r # "Ok"
        THEN [calls |-> <<WriteCall(addr, buffer, w), WaitCall(DelayMs(delay)),
                          ReadCall(addr, <<0, 0, 0>>, r)>>,
              out |-> buffer_to_word(0, 0, 0)]
        ELSE [calls |-> <<WriteCall(addr, buffer, w), WaitCall(DelayMs(delay)),
                          ReadCall(addr, rdata, r)>>,
              out |-> buffer_to_word(rdata[1], rdata[2], rdata[3])]

ReadWordSequence(addr, delay, reg, input, w, r, rdata) ==
    LET buffer == to_be_bytes(reg)
    IN  IF w # "Ok"
        THEN [calls |-> <<WriteCall(addr, buffer, w)>>, out |-> I2cError(w)]
        ELSE IF r # "Ok"
        THEN [calls |-> <<WriteCall(addr, buffer, w), WaitCall(DelayMs(delay)),
                          ReadCall(addr, <<0, 0, 0>>, r)>>,
              out |-> I2cError(r)]
        ELSE [calls |-> <<WriteCall(addr, buffer, w), WaitCall(DelayMs(delay)),
                          ReadCall(addr, rdata, r)>>,
              out |-> buffer_to_word(rdata[1], rdata[2], rdata[3])]

\* a buffer whose checksums do not match is read a second time
ReadThreeWordsSequenceRetrying(addr, delay, reg, input, w, r, rdata) ==
    LET buffer == to_be_bytes(reg)
    IN  IF w # "Ok"
        THEN [calls |-> <<WriteCall(addr, buffer, w)>>, out |-> I2cError(w)]
        ELSE IF r # "Ok"
        THEN [calls |-> <<WriteCall(addr, buffer, w), WaitCall(DelayMs(delay)),
                          ReadCall(addr, <<0, 0, 0, 0, 0, 0, 0, 0, 0>>, r)>>,
              out |-> I2cError(r)]
        ELSE IF buffer_to_three_words(rdata).tag # "Ok"
        THEN [calls |-> <<WriteCall(addr, buffer, w), WaitCall(DelayMs(delay)),
                          ReadCall(addr, rdata, r), ReadCall(addr, rdata, r)>>,
              out |-> buffer_to_three_words(rdata)]
        ELSE [calls |-> <<WriteCall(addr, buffer, w), WaitCall(DelayMs(delay)),
                          ReadCall(addr, rdata, r)>>,
              out |-> buffer_to_three_words(rdata)]

ReadThreeWordsSequence(addr, delay, reg, input, w, r, rdata) ==
    LET buffer == to_be_bytes(reg)
    IN  IF w # "Ok"
        THEN [calls |-> <<WriteCall(addr, buffer, w)>>, out |-> I2cError(w)]
        ELSE IF r # "Ok"
        THEN [calls |-> <<WriteCall(addr, buffer, w), WaitCall(DelayMs(delay)),
                          ReadCall(addr, <<0, 0, 0, 0, 0, 0, 0, 0, 0>>, r)>>,
              out |-> I2cError(r)]
        ELSE [calls |-> <<WriteCall(addr, buffer, w), WaitCall(DelayMs(delay)),
                          ReadCall(addr, rdata, r)>>,
              out |-> buffer_to_three_words(rdata)]

\* the checksum computed over the first two bytes of the buffer, the
\* register, in place of the payload
WriteWordSequenceRegisterChecksum(addr, delay, reg, input, w, r, rdata) ==
    LET register_buffer == to_be_bytes(reg)
        input_buffer == to_be_bytes(input)
        checksum == compute(register_buffer)
        buffer == <<register_buffer[1], register_buffer[2],
                    input_buffer[1], input_buffer[2], checksum>>
    IN  IF w # "Ok"
        THEN [calls |-> <<WriteCall(addr, buffer, w)>>, out |-> I2cError(w)]
        ELSE [calls |-> <<WriteCall(addr, buffer, w), WaitCall(DelayMs(delay))>>,
              out |-> Ok(Unit)]

WriteWordSequence(addr, delay, reg, input, w, r, rdata) ==
    LET register_buffer == to_be_bytes(reg)
        input_buffer == to_be_bytes(input)
        checksum == compute(input_buffer)
        buffer == <<register_buffer[1], register_buffer[2],
                    input_buffer[1], input_buffer[2], checksum>>
    IN  IF w # "Ok"
        THEN [calls |-> <<WriteCall(addr, buffer, w)>>, out |-> I2cError(w)]
        ELSE [calls |-> <<WriteCall(addr, buffer, w), WaitCall(DelayMs(delay))>>,
              out |-> Ok(Unit)]

\* SequenceType::execute, dispatched on the command's SequenceType
SequenceExecute(seqType, addr, delay, reg, input, w, r, rdata) ==
    CASE seqType = "SendCommandSequence" ->
            SendCommandSequence(addr, delay, reg, input, w, r, rdata)
      [] seqType = "SendCommandAndFetchResultSequence" ->
            SendCommandAndFetchResultSequence(addr, delay, reg, input, w, r, rdata)
      [] seqType = "ReadWordSequence" ->
            ReadWordSequence(addr, delay, reg, input, w, r, rdata)
      [] seqType = "ReadThreeWordsSequence" ->
            ReadThreeWordsSequence(addr, delay, reg, input, w, r, rdata)
      [] seqType = "WriteWordSequence" ->
            WriteWordSequence(addr, delay, reg, input, w, r, rdata)

\* Command::execute
Execute(cmd, addr, input, w, r, rdata) ==
    LET seqInput == preprocess(cmd, input)
        run == SequenceExecute(SequenceTypeOf(cmd), addr, max_duration(cmd),
                               register(cmd), seqInput, w, r, rdata)
    IN  [calls |-> run.calls,
         out |-> IF run.out.tag = "Ok"
                    THEN Ok(postprocess(cmd, run.out.val))
                    ELSE run.out]

----------------------------------------------------------------------------
(* sensor.rs: the type-state handle *)

\* the command each public operation executes
CommandOf(op) ==
    CASE op = "start_periodic_measurement" -> "StartPeriodicMeasurement"
      [] op = "set_temperature_offset" -> "SetTemperatureOffset"
      [] op = "get_temperature_offset" -> "GetTemperatureOffset"
      [] op = "set_sensor_altitude" -> "SetSensorAltitude"
      [] op = "get_sensor_altitude" -> "GetSensorAltitude"
      [] op = "perform_forced_recalibration" -> "PerformForcedRecalibration"
      [] op = "set_automatic_self_calibration_enabled" ->
            "SetAutomaticSelfCalibrationEnabled"
      [] op = "get_automatic_self_calibration_enabled" ->
            "GetAutomaticSelfCalibrationEnabled"
      [] op = "start_low_power_periodic_measurement" ->
            "StartLowPowerPeriodicMeasurement"
      [] op = "persist_settings" -> "PersistSettings"
      [] op = "get_serial_number" -> "GetSerialNumber"
      [] op = "perform_self_test" -> "PerformSelfTest"
      [] op = "perform_factory_reset" -> "PerformFactoryReset"
      [] op = "reinit" -> "Reinitialize"
      [] op = "measure_single_shot" -> "MeasureSingleShot"
      [] op = "measure_single_shot_rht_only" -> "MeasureSingleShotRhtOnly"
      [] op = "read_measurement" -> "ReadMeasurement"
      [] op = "get_data_ready_status" -> "GetDataReadyStatus"
      [] op = "stop_periodic_measurement" -> "StopPeriodicMeasurement"
      [] op = "set_ambient_pressure" -> "SetAmbientPressure"

\* operations of `impl Scd4x<I2C, D, Idle>`
IdleOps ==
    {"start_periodic_measurement", "set_temperature_offset",
     "get_temperature_offset", "set_sensor_altitude", "get_sensor_altitude",
     "perform_forced_recalibration", "set_automatic_self_calibration_enabled",
     "get_automatic_self_calibration_enabled",
     "start_low_power_periodic_measurement", "persist_settings",
     "get_serial_number", "perform_self_test", "perform_factory_reset",
     "reinit", "measure_single_shot", "measure_single_shot_rht_only"}

\* operations of `impl Scd4x<I2C, D, Measuring>`
MeasuringOps == {"read_measurement", "get_data_ready_status"}

\* operations of `impl<S: State> Scd4x<I2C, D, S>`
AnyStateOps == {"release", "stop_periodic_measurement", "set_ambient_pressure"}

\* every method in the impl block that is generic in the state
CallableInAnyMode(op) ==
    IF op \in IdleOps \cup MeasuringOps \cup AnyStateOps
        THEN {"Idle", "Measuring"}
        ELSE {}

\* stop_periodic_measurement in the impl block of Measuring
CallableInStopWhenMeasuring(op) ==
    IF op \in IdleOps THEN {"Idle"}
    ELSE IF op \in MeasuringOps \cup {"stop_periodic_measurement"} THEN {"Measuring"}
    ELSE IF op \in AnyStateOps THEN {"Idle", "Measuring"}
    ELSE {}

\* set_ambient_pressure in the impl block of Idle
CallableInPressureWhenIdle(op) ==
    IF op \in IdleOps \cup {"set_ambient_pressure"} THEN {"Idle"}
    ELSE IF op \in MeasuringOps THEN {"Measuring"}
    ELSE IF op \in AnyStateOps THEN {"Idle", "Measuring"}
    ELSE {}

\* the modes whose handle type has the method op
CallableIn(op) ==
    IF op \in IdleOps THEN {"Idle"}
    ELSE IF op \in MeasuringOps THEN {"Measuring"}
    ELSE IF op \in AnyStateOps THEN {"Idle", "Measuring"}
    ELSE {}

\* every `self`-consuming operation returns Scd4x<I2C, D, Measuring>
TargetModeAlwaysMeasuring(op) == "Measuring"

\* start_low_power_periodic_measurement returns Scd4x<I2C, D, Idle>
TargetModeLowPowerIdle(op) ==
    IF op \in {"stop_periodic_measurement",
               "start_low_power_periodic_measurement"}
        THEN "Idle"
        ELSE "Measuring"

\* the state parameter of the handle a `self`-consuming operation returns
TargetMode(op) ==
    IF op = "stop_periodic_measurement" THEN "Idle" ELSE "Measuring"

\* every constructor builds the Idle handle
NewHandleIdle(state, addr) == [state |-> "Idle", address |-> addr]

\* every constructor uses the default address
NewHandleDefaultAddress(state, addr) ==
    [state |-> state, address |-> DEFAULT_ADDRESS]

\* the fields of the handle a constructor builds
NewHandle(state, addr) == [state |-> state, address |-> addr]

----------------------------------------------------------------------------
(* What the caller and the transport may supply *)

Outcomes == {"Ok", "NoAcknowledge"}

Addresses == {99}

\* 5.4 degrees, to 2^-16
TemperatureOffsets == {353894}

\* 1950.5 m
Altitudes == {1950 * Fraction + 8}

Pressures == {987 * Fraction}

Co2s == {480 * Fraction}

\* 3-byte answers: the last one has a wrong checksum
Read3 == {<<128, 0, 162>>, <<4, 76, 66>>, <<4, 76, 67>>}

\* 9-byte answers: the last two have a wrong checksum in group 1 and in
\* groups 0 and 2
Read9 ==
    {<<1, 244, 51, 102, 103, 162, 94, 185, 60>>,
     <<1, 244, 51, 102, 103, 163, 94, 185, 60>>,
     <<1, 244, 50, 102, 103, 162, 94, 185, 61>>}

----------------------------------------------------------------------------
(* The state machine *)

Init ==
    /\ mode = "NoHandle"
    /\ address = 0
    /\ i2cOwner = "caller"
    /\ delayOwner = "caller"
    /\ bus = <<>>
    /\ ctor = "none"
    /\ ctorAddress = 0
    /\ lastOp = "none"
    /\ lastMode = "NoHandle"
    /\ lastAddress = 0
    /\ lastStart = 0
    /\ lastInput = Unit
    /\ result = Ok(Unit)
    /\ ops = 0

\* a constructor: moves the transport and the delay into a new handle
Construct(name, state, addr) ==
    /\ mode = "NoHandle"
    /\ i2cOwner = "caller"
    /\ delayOwner = "caller"
    /\ LET handle == NewHandle(state, addr)
       IN  /\ mode' = handle.state
           /\ address' = handle.address
           /\ result' = Ok(handle)
    /\ i2cOwner' = "handle"
    /\ delayOwner' = "handle"
    /\ ctor' = name
    /\ ctorAddress' = addr
    /\ lastOp' = name
    /\ lastMode' = mode
    /\ lastAddress' = address
    /\ lastStart' = Len(bus)
    /\ lastInput' = Unit
    /\ UNCHANGED <<bus, ops>>

new_with_address == \E a \in Addresses : Construct("new_with_address", "Idle", a)

new == Construct("new", "Idle", DEFAULT_ADDRESS)

new_in_measuring_with_address ==
    \E a \in Addresses :
        Construct("new_in_measuring_with_address", "Measuring", a)

new_in_measuring == Construct("new_in_measuring", "Measuring", DEFAULT_ADDRESS)

\* an error drops the handle, as if the operation took `self`
BorrowingDroppedOnError(op, input, w, r, rdata) ==
    /\ mode \in CallableIn(op)
    /\ ops < MaxOps
    /\ LET run == Execute(CommandOf(op), address, input, w, r, rdata)
       IN  /\ bus' = bus \o run.calls
           /\ result' = run.out
           /\ mode' = IF run.out.tag = "Ok" THEN mode ELSE "Dropped"
    /\ lastOp' = op
    /\ lastMode' = mode
    /\ lastAddress' = address
    /\ lastStart' = Len(bus)
    /\ lastInput' = input
    /\ ops' = ops + 1
    /\ UNCHANGED <<address, i2cOwner, delayOwner, ctor, ctorAddress>>

\* an operation taking `&mut self`: executes its command and returns the
\* command's result; the handle stays with the caller
Borrowing(op, input, w, r, rdata) ==
    /\ mode \in CallableIn(op)
    /\ ops < MaxOps
    /\ LET run == Execute(CommandOf(op), address, input, w, r, rdata)
       IN  /\ bus' = bus \o run.calls
           /\ result' = run.out
    /\ lastOp' = op
    /\ lastMode' = mode
    /\ lastAddress' = address
    /\ lastStart' = Len(bus)
    /\ lastInput' = input
    /\ ops' = ops + 1
    /\ UNCHANGED <<mode, address, i2cOwner, delayOwner, ctor, ctorAddress>>

\* on error the caller keeps the handle it called the operation on
ConsumingKeptOnError(op, w) ==
    /\ mode \in CallableIn(op)
    /\ ops < MaxOps
    /\ LET run == Execute(CommandOf(op), address, Unit, w, "Ok", <<>>)
       IN  /\ bus' = bus \o run.calls
           /\ IF run.out.tag = "Ok"
              THEN LET handle == NewHandle(TargetMode(op), address)
                   IN  /\ mode' = handle.state
                       /\ address' = handle.address
                       /\ result' = Ok(handle)
              ELSE /\ result' = run.out
                   /\ UNCHANGED <<mode, address>>
    /\ lastOp' = op
    /\ lastMode' = mode
    /\ lastAddress' = address
    /\ lastStart' = Len(bus)
    /\ lastInput' = Unit
    /\ ops' = ops + 1
    /\ UNCHANGED <<i2cOwner, delayOwner, ctor, ctorAddress>>

\* an operation taking `self`: executes its command; on success it builds
\* the handle of the target state from the fields of self, on error `?`
\* returns and self is dropped with the transport and the delay it owns
Consuming(op, w) ==
    /\ mode \in CallableIn(op)
    /\ ops < MaxOps
    /\ LET run == Execute(CommandOf(op), address, Unit, w, "Ok", <<>>)
       IN  /\ bus' = bus \o run.calls
           /\ IF run.out.tag = "Ok"
              THEN LET handle == NewHandle(TargetMode(op), address)
                   IN  /\ mode' = handle.state
                       /\ address' = handle.address
                       /\ result' = Ok(handle)
                       /\ UNCHANGED <<i2cOwner, delayOwner>>
              ELSE /\ mode' = "Dropped"
                   /\ result' = run.out
                   /\ i2cOwner' = "dropped"
                   /\ delayOwner' = "dropped"
                   /\ UNCHANGED address
    /\ lastOp' = op
    /\ lastMode' = mode
    /\ lastAddress' = address
    /\ lastStart' = Len(bus)
    /\ lastInput' = Unit
    /\ ops' = ops + 1
    /\ UNCHANGED <<ctor, ctorAddress>>

start_periodic_measurement ==
    \E w \in Outcomes : Consuming("start_periodic_measurement", w)

set_temperature_offset ==
    \E t \in TemperatureOffsets, w \in Outcomes :
        Borrowing("set_temperature_offset", t, w, "Ok", <<>>)

get_temperature_offset ==
    \E w \in Outcomes, r \in Outcomes, rdata \in Read3 :
        Borrowing("get_temperature_offset", Unit, w, r, rdata)

set_sensor_altitude ==
    \E a \in Altitudes, w \in Outcomes :
        Borrowing("set_sensor_altitude", a, w, "Ok", <<>>)

get_sensor_altitude ==
    \E w \in Outcomes, r \in Outcomes, rdata \in Read3 :
        Borrowing("get_sensor_altitude", Unit, w, r, rdata)

perform_forced_recalibration ==
    \E c \in Co2s, w \in Outcomes, r \in Outcomes, rdata \in Read3 :
        Borrowing("perform_forced_recalibration", c, w, r, rdata)

set_automatic_self_calibration_enabled ==
    \E enabled \in BOOLEAN, w \in Outcomes :
        Borrowing("set_automatic_self_calibration_enabled", enabled, w, "Ok", <<>>)

get_automatic_self_calibration_enabled ==
    \E w \in Outcomes, r \in Outcomes, rdata \in Read3 :
        Borrowing("get_automatic_self_calibration_enabled", Unit, w, r, rdata)

start_low_power_periodic_measurement ==
    \E w \in Outcomes : Consuming("start_low_power_periodic_measurement", w)

persist_settings ==
    \E w \in Outcomes : Borrowing("persist_settings", Unit, w, "Ok", <<>>)

get_serial_number ==
    \E w \in Outcomes, r \in Outcomes, rdata \in Read9 :
        Borrowing("get_serial_number", Unit, w, r, rdata)

perform_self_test ==
    \E w \in Outcomes, r \in Outcomes, rdata \in Read3 :
        Borrowing("perform_self_test", Unit, w, r, rdata)

perform_factory_reset ==
    \E w \in Outcomes : Borrowing("perform_factory_reset", Unit, w, "Ok", <<>>)

reinit ==
    \E w \in Outcomes : Borrowing("reinit", Unit, w, "Ok", <<>>)

measure_single_shot ==
    \E w \in Outcomes : Consuming("measure_single_shot", w)

measure_single_shot_rht_only ==
    \E w \in Outcomes : Consuming("measure_single_shot_rht_only", w)

read_measurement ==
    \E w \in Outcomes, r \in Outcomes, rdata \in Read9 :
        Borrowing("read_measurement", Unit, w, r, rdata)

get_data_ready_status ==
    \E w \in Outcomes, r \in Outcomes, rdata \in Read3 :
        Borrowing("get_data_ready_status", Unit, w, r, rdata)

\* release: hands the transport back, drops the rest of the handle
\* a Measuring handle is stopped before the transport is handed back
release_stopping_measurement ==
    /\ mode \in CallableIn("release")
    /\ mode' = "Released"
    /\ i2cOwner' = "caller"
    /\ delayOwner' = "dropped"
    /\ result' = Ok("i2c")
    /\ bus' = IF mode = "Measuring"
                 THEN bus \o <<WriteCall(address, <<63, 134>>, "Ok"),
                               WaitCall(500)>>
                 ELSE bus
    /\ lastOp' = "release"
    /\ lastMode' = mode
    /\ lastAddress' = address
    /\ lastStart' = Len(bus)
    /\ lastInput' = Unit
    /\ UNCHANGED <<address, ctor, ctorAddress, ops>>

release ==
    /\ mode \in CallableIn("release")
    /\ mode' = "Released"
    /\ i2cOwner' = "caller"
    /\ delayOwner' = "dropped"
    /\ result' = Ok("i2c")
    /\ lastOp' = "release"
    /\ lastMode' = mode
    /\ lastAddress' = address
    /\ lastStart' = Len(bus)
    /\ lastInput' = Unit
    /\ UNCHANGED <<address, bus, ctor, ctorAddress, ops>>

stop_periodic_measurement ==
    \E w \in Outcomes : Consuming("stop_periodic_measurement", w)

set_ambient_pressure ==
    \E p \in Pressures, w \in Outcomes :
        Borrowing("set_ambient_pressure", p, w, "Ok", <<>>)

Next ==
    \/ new
    \/ new_with_address
    \/ new_in_measuring
    \/ new_in_measuring_with_address
    \/ start_periodic_measurement
    \/ set_temperature_offset
    \/ get_temperature_offset
    \/ set_sensor_altitude
    \/ get_sensor_altitude
    \/ perform_forced_recalibration
    \/ set_automatic_self_calibration_enabled
    \/ get_automatic_self_calibration_enabled
    \/ start_low_power_periodic_measurement
    \/ persist_settings
    \/ get_serial_number
    \/ perform_self_test
    \/ perform_factory_reset
    \/ reinit
    \/ measure_single_shot
    \/ measure_single_shot_rht_only
    \/ read_measurement
    \/ get_data_ready_status
    \/ release
    \/ stop_periodic_measurement
    \/ set_ambient_pressure

Spec == Init /\ [][Next]_vars

----------------------------------------------------------------------------
(* The checksum functions on their own: a caller draws a 2-byte buffer and *)
(* an expected byte, then calls compute or verify once.  The variables of  *)
(* the handle stay as they are before construction.                        *)

\* u8
Bytes == 0..255

\* the bytes the buffers are made of
ChecksumBytes ==
    {0, 1, 7, 59, 94, 102, 103, 128, 150, 159, 185, 190, 239, 244, 248, 255}

ChecksumInit ==
    /\ mode = "NoHandle"
    /\ address = 0
    /\ i2cOwner = "caller"
    /\ delayOwner = "caller"
    /\ bus = <<>>
    /\ ctor = "none"
    /\ ctorAddress = 0
    /\ lastOp = "none"
    /\ lastMode = "NoHandle"
    /\ lastAddress = 0
    /\ lastStart = 0
    /\ lastInput \in [data : ChecksumBytes \X ChecksumBytes, expected : Bytes]
    /\ result = Ok(Unit)
    /\ ops = 0

compute_checksum ==
    /\ lastOp = "none"
    /\ lastOp' = "compute_checksum"
    /\ result' = compute(lastInput.data)
    /\ UNCHANGED <<mode, address, i2cOwner, delayOwner, bus, ctor, ctorAddress,
                   lastMode, lastAddress, lastStart, lastInput, ops>>

verify_checksum ==
    /\ lastOp = "none"
    /\ lastOp' = "verify_checksum"
    /\ result' = verify(lastInput.data, lastInput.expected)
    /\ UNCHANGED <<mode, address, i2cOwner, delayOwner, bus, ctor, ctorAddress,
                   lastMode, lastAddress, lastStart, lastInput, ops>>

ChecksumNext ==
    \/ compute_checksum
    \/ verify_checksum

ChecksumSpec == ChecksumInit /\ [][ChecksumNext]_vars

----------------------------------------------------------------------------
(* The conversions of the catalog on their own: a caller draws one         *)
(* argument, a word, three words or a quantity, then one preprocess or     *)
(* postprocess of the catalog is applied to it once, or a postprocess and  *)
(* on its value the preprocess of the matching setter.  The variables of   *)
(* the handle stay as they are before construction.  The quantities are    *)
(* those of the build without the feature uom, where sample.rs wraps and   *)
(* unwraps an f32 unchanged.                                               *)

\* u16
Words == 0..65535

\* the words the three-word answers are made of
TripleWords == {0, 1, 500, 15294, 24249, 26215, 32768, 40711, 63638, 65535}

\* temperature offsets, in 1/65536 degree: the offsets of a few words and
\* offsets between those of two successive words (175 * 2022 + 44 is the
\* 5.4 degrees of the tests), then offsets below zero and offsets that
\* scale to 65536 or more
OffsetInputs ==
    {175 * word + part : word \in {0, 1, 2022, 32767, 65534, 65535},
                         part \in {0, 1, 44, 87, 88, 131, 174}}
    \cup {0 - 1, 0 - 175, 0 - 17500, 175 * 65536, 175 * 65536 + 88,
          175 * 100000}

\* altitudes, pressures and concentrations, in 1/16 of their unit, then
\* values below zero and values of 65536 or more
SixteenthInputs ==
    {Fraction * whole + part : whole \in {0, 1, 480, 987, 1100, 1950, 65535},
                               part \in {0, 8, 15}}
    \cup {0 - 1, 0 - Fraction, 0 - 1600 * Fraction, 65536 * Fraction,
          65536 * Fraction + 8, 100000 * Fraction}

ConversionInputs ==
    [kind : {"word"}, value : Words]
    \cup [kind : {"words"}, value : TripleWords \X TripleWords \X TripleWords]
    \cup [kind : {"temperature_offset"}, value : OffsetInputs]
    \cup [kind : {"altitude", "pressure", "co2"}, value : SixteenthInputs]
    \cup [kind : {"enabled"}, value : BOOLEAN]

ConversionInit ==
    /\ mode = "NoHandle"
    /\ address = 0
    /\ i2cOwner = "caller"
    /\ delayOwner = "caller"
    /\ bus = <<>>
    /\ ctor = "none"
    /\ ctorAddress = 0
    /\ lastOp = "none"
    /\ lastMode = "NoHandle"
    /\ lastAddress = 0
    /\ lastStart = 0
    /\ lastInput \in ConversionInputs
    /\ result = Ok(Unit)
    /\ ops = 0

\* one application, called name, to the argument of the kind it accepts
Convert(name, kind, value) ==
    /\ lastOp = "none"
    /\ lastInput.kind = kind
    /\ lastOp' = name
    /\ result' = value
    /\ UNCHANGED <<mode, address, i2cOwner, delayOwner, bus, ctor, ctorAddress,
                   lastMode, lastAddress, lastStart, lastInput, ops>>

GetSerialNumber_postprocess ==
    Convert("GetSerialNumber_postprocess", "words",
            postprocess("GetSerialNumber", lastInput.value))

ReadMeasurement_postprocess ==
    Convert("ReadMeasurement_postprocess", "words",
            postprocess("ReadMeasurement", lastInput.value))

GetDataReadyStatus_postprocess ==
    Convert("GetDataReadyStatus_postprocess", "word",
            postprocess("GetDataReadyStatus", lastInput.value))

PerformForcedRecalibration_preprocess ==
    Convert("PerformForcedRecalibration_preprocess", "co2",
            preprocess("PerformForcedRecalibration", lastInput.value))

PerformForcedRecalibration_postprocess ==
    Convert("PerformForcedRecalibration_postprocess", "word",
            postprocess("PerformForcedRecalibration", lastInput.value))

GetAutomaticSelfCalibrationEnabled_postprocess ==
    Convert("GetAutomaticSelfCalibrationEnabled_postprocess", "word",
            postprocess("GetAutomaticSelfCalibrationEnabled", lastInput.value))

SetAutomaticSelfCalibrationEnabled_preprocess ==
    Convert("SetAutomaticSelfCalibrationEnabled_preprocess", "enabled",
            preprocess("SetAutomaticSelfCalibrationEnabled", lastInput.value))

\* the setter's word decoded by the getter
AutomaticSelfCalibration_set_get ==
    Convert("AutomaticSelfCalibration_set_get", "enabled",
            postprocess("GetAutomaticSelfCalibrationEnabled",
                preprocess("SetAutomaticSelfCalibrationEnabled",
                           lastInput.value)))

GetTemperatureOffset_postprocess ==
    Convert("GetTemperatureOffset_postprocess", "word",
            postprocess("GetTemperatureOffset", lastInput.value))

SetTemperatureOffset_preprocess ==
    Convert("SetTemperatureOffset_preprocess", "temperature_offset",
            preprocess("SetTemperatureOffset", lastInput.value))

\* the getter's offset encoded by the setter
TemperatureOffset_get_set ==
    Convert("TemperatureOffset_get_set", "word",
            preprocess("SetTemperatureOffset",
                postprocess("GetTemperatureOffset", lastInput.value)))

GetSensorAltitude_postprocess ==
    Convert("GetSensorAltitude_postprocess", "word",
            postprocess("GetSensorAltitude", lastInput.value))

SetSensorAltitude_preprocess ==
    Convert("SetSensorAltitude_preprocess", "altitude",
            preprocess("SetSensorAltitude", lastInput.value))

\* the getter's altitude encoded by the setter
SensorAltitude_get_set ==
    Convert("SensorAltitude_get_set", "word",
            preprocess("SetSensorAltitude",
                postprocess("GetSensorAltitude", lastInput.value)))

SetAmbientPressure_preprocess ==
    Convert("SetAmbientPressure_preprocess", "pressure",
            preprocess("SetAmbientPressure", lastInput.value))

\* Command::execute of the four commands that convert a quantity to the
\* word they write, on a bus that accepts the write
SetSensorAltitude_execute ==
    Convert("SetSensorAltitude_execute", "altitude",
            Execute("SetSensorAltitude", DEFAULT_ADDRESS, lastInput.value,
                    "Ok", "Ok", <<>>))

SetAmbientPressure_execute ==
    Convert("SetAmbientPressure_execute", "pressure",
            Execute("SetAmbientPressure", DEFAULT_ADDRESS, lastInput.value,
                    "Ok", "Ok", <<>>))

SetTemperatureOffset_execute ==
    Convert("SetTemperatureOffset_execute", "temperature_offset",
            Execute("SetTemperatureOffset", DEFAULT_ADDRESS, lastInput.value,
                    "Ok", "Ok", <<>>))

PerformForcedRecalibration_execute ==
    Convert("PerformForcedRecalibration_execute", "co2",
            Execute("PerformForcedRecalibration", DEFAULT_ADDRESS,
                    lastInput.value, "Ok", "Ok", <<128, 0, 162>>))

ConversionNext ==
    \/ GetSerialNumber_postprocess
    \/ ReadMeasurement_postprocess
    \/ GetDataReadyStatus_postprocess
    \/ PerformForcedRecalibration_preprocess
    \/ PerformForcedRecalibration_postprocess
    \/ GetAutomaticSelfCalibrationEnabled_postprocess
    \/ SetAutomaticSelfCalibrationEnabled_preprocess
    \/ AutomaticSelfCalibration_set_get
    \/ GetTemperatureOffset_postprocess
    \/ SetTemperatureOffset_preprocess
    \/ TemperatureOffset_get_set
    \/ GetSensorAltitude_postprocess
    \/ SetSensorAltitude_preprocess
    \/ SensorAltitude_get_set
    \/ SetAmbientPressure_preprocess
    \/ SetSensorAltitude_execute
    \/ SetAmbientPressure_execute
    \/ SetTemperatureOffset_execute
    \/ PerformForcedRecalibration_execute

ConversionSpec == ConversionInit /\ [][ConversionNext]_vars

----------------------------------------------------------------------------
(* The checksummed word on the wire, on its own: a caller draws a word, or *)
(* a word and one of the 24 bit positions of its three wire bytes; the     *)
(* word is encoded as a sequence writes it and decoded with buffer_to_word *)
(* as a sequence reads it, with the drawn bit inverted in between if one   *)
(* was drawn.  The variables of the handle stay as they are before         *)
(* construction.                                                           *)

\* the bit positions of three bytes, the most significant bit of the first
\* byte being position 0
WireBits == 0..23

WireInputs ==
    [kind : {"word"}, value : Words]
    \cup [kind : {"corrupted"}, value : Words \X WireBits]

WireInit ==
    /\ mode = "NoHandle"
    /\ address = 0
    /\ i2cOwner = "caller"
    /\ delayOwner = "caller"
    /\ bus = <<>>
    /\ ctor = "none"
    /\ ctorAddress = 0
    /\ lastOp = "none"
    /\ lastMode = "NoHandle"
    /\ lastAddress = 0
    /\ lastStart = 0
    /\ lastInput \in WireInputs
    /\ result = Ok(Unit)
    /\ ops = 0

\* the three bytes with the bit at one position inverted
FlipBit(buffer, position) ==
    LET index == (position \div 8) + 1
        mask == 2 ^ (7 - (position % 8))
    IN  [buffer EXCEPT ![index] = BitXor(buffer[index], mask)]

\* the payload word and its checksum in the 5 bytes a sequence writes
WrittenWord(run) == SubSeq(run.calls[1].data, 3, 5)

\* the bytes WriteWordSequence writes for the word, given to buffer_to_word
WriteWordSequence_buffer_to_word ==
    Convert("WriteWordSequence_buffer_to_word", "word",
            LET buffer == WrittenWord(
                    WriteWordSequence(DEFAULT_ADDRESS,
                        max_duration("SetSensorAltitude"),
                        register("SetSensorAltitude"), lastInput.value,
                        "Ok", "Ok", <<>>))
            IN  buffer_to_word(buffer[1], buffer[2], buffer[3]))

\* the bytes SendCommandAndFetchResultSequence writes for the word, given
\* to buffer_to_word
SendCommandAndFetchResultSequence_buffer_to_word ==
    Convert("SendCommandAndFetchResultSequence_buffer_to_word", "word",
            LET buffer == WrittenWord(
                    SendCommandAndFetchResultSequence(DEFAULT_ADDRESS,
                        max_duration("PerformForcedRecalibration"),
                        register("PerformForcedRecalibration"),
                        lastInput.value, "Ok", "Ok", <<128, 0, 162>>))
            IN  buffer_to_word(buffer[1], buffer[2], buffer[3]))

\* the bytes of the word and its checksum, one bit inverted, given to
\* buffer_to_word
corrupted_buffer_to_word ==
    Convert("corrupted_buffer_to_word", "corrupted",
            LET word == lastInput.value[1]
                bytes == to_be_bytes(word)
                buffer == FlipBit(<<bytes[1], bytes[2], compute(bytes)>>,
                                  lastInput.value[2])
            IN  buffer_to_word(buffer[1], buffer[2], buffer[3]))

WireNext ==
    \/ WriteWordSequence_buffer_to_word
    \/ SendCommandAndFetchResultSequence_buffer_to_word
    \/ corrupted_buffer_to_word

WireSpec == WireInit /\ [][WireNext]_vars

----------------------------------------------------------------------------
(* async/command.rs: one execution of a command, one capability call at a
   time.  lastOp is the command being executed and lastInput its input;
   bus holds the capability calls that have returned; result is the
   position of the execution until it holds what execute returns. *)

\* the execution is suspended in its next capability call
Running(next) == [tag |-> "Running", next |-> next]

\* the kind of input a command takes: `type Input`
InputKindOf(cmd) ==
    CASE cmd = "SetTemperatureOffset" -> "temperature_offset"
      [] cmd = "SetSensorAltitude" -> "altitude"
      [] cmd = "SetAmbientPressure" -> "pressure"
      [] cmd = "PerformForcedRecalibration" -> "co2"
      [] cmd = "SetAutomaticSelfCalibrationEnabled" -> "enabled"
      [] OTHER -> "unit"

\* the inputs a command is executed with, each with its kind
ExecutionInputs ==
    [kind : {"unit"}, value : {Unit}]
    \cup [kind : {"temperature_offset"}, value : TemperatureOffsets]
    \cup [kind : {"altitude"}, value : Altitudes]
    \cup [kind : {"pressure"}, value : Pressures]
    \cup [kind : {"co2"}, value : Co2s]
    \cup [kind : {"enabled"}, value : BOOLEAN]

\* the buffer a sequence hands to `i2c.write`
ExecutionWriteBuffer(seqType, reg, input) ==
    IF seqType \in {"SendCommandAndFetchResultSequence", "WriteWordSequence"}
    THEN LET register_buffer == to_be_bytes(reg)
             input_buffer == to_be_bytes(input)
             checksum == compute(input_buffer)
         IN  <<register_buffer[1], register_buffer[2],
               input_buffer[1], input_buffer[2], checksum>>
    ELSE to_be_bytes(reg)

\* the length of `output_buffer`, for the sequences that have one
OutputBufferLength(seqType) ==
    CASE seqType = "ReadThreeWordsSequence" -> 9
      [] seqType \in {"SendCommandAndFetchResultSequence",
                      "ReadWordSequence"} -> 3
      [] OTHER -> 0

\* `[0; 3]`, `[0; 9]`
ZeroBuffer(length) == [index \in 1..length |-> 0]

\* what the device may put in a buffer of the length
ReadAnswers(length) == IF length = 9 THEN Read9 ELSE Read3

ExecutionInit ==
    /\ mode = "NoHandle"
    /\ address = 0
    /\ i2cOwner = "caller"
    /\ delayOwner = "caller"
    /\ bus = <<>>
    /\ ctor = "none"
    /\ ctorAddress = 0
    /\ lastOp = "none"
    /\ lastMode = "NoHandle"
    /\ lastAddress = DEFAULT_ADDRESS
    /\ lastStart = 0
    /\ lastInput \in ExecutionInputs
    /\ result = Ok(Unit)
    /\ ops = 0

\* Command::execute is called on a command that takes the input the
\* caller holds: the sequence starts and reaches `i2c.write`
Command_execute(cmd) ==
    /\ lastOp = "none"
    /\ lastInput.kind = InputKindOf(cmd)
    /\ lastOp' = cmd
    /\ result' = Running("write")
    /\ UNCHANGED <<mode, address, i2cOwner, delayOwner, bus, ctor, ctorAddress,
                   lastMode, lastAddress, lastStart, lastInput, ops>>

\* `i2c.write(address, &buffer).await?` returns
i2c_write_returns ==
    /\ result = Running("write")
    /\ \E w \in Outcomes :
          LET buffer == ExecutionWriteBuffer(SequenceTypeOf(lastOp),
                            register(lastOp),
                            preprocess(lastOp, lastInput.value))
          IN  /\ bus' = Append(bus, WriteCall(lastAddress, buffer, w))
              /\ result' = IF w # "Ok" THEN I2cError(w) ELSE Running("delay_ms")
    /\ UNCHANGED <<mode, address, i2cOwner, delayOwner, ctor, ctorAddress,
                   lastOp, lastMode, lastAddress, lastStart, lastInput, ops>>

\* `delayer.delay_ms(delay.as_millis() as u32).await` returns
delay_ms_returns ==
    /\ result = Running("delay_ms")
    /\ bus' = Append(bus, WaitCall(DelayMs(max_duration(lastOp))))
    /\ result' = IF OutputBufferLength(SequenceTypeOf(lastOp)) = 0
                    THEN Ok(postprocess(lastOp, Unit))
                    ELSE Running("read")
    /\ UNCHANGED <<mode, address, i2cOwner, delayOwner, ctor, ctorAddress,
                   lastOp, lastMode, lastAddress, lastStart, lastInput, ops>>

\* the word or words of a buffer that was read
ExecutionWords(seqType, buffer) ==
    IF seqType = "ReadThreeWordsSequence"
    THEN buffer_to_three_words(buffer)
    ELSE buffer_to_word(buffer[1], buffer[2], buffer[3])

\* a buffer whose checksum does not match is read again, twice at most
i2c_read_returns_retrying ==
    /\ result = Running("read")
    /\ Len(bus) < 5
    /\ LET length == OutputBufferLength(SequenceTypeOf(lastOp))
       IN  \E r \in Outcomes, rdata \in ReadAnswers(length) :
              LET words == ExecutionWords(SequenceTypeOf(lastOp), rdata)
              IN  IF r # "Ok"
                  THEN /\ bus' = Append(bus, ReadCall(lastAddress,
                                                      ZeroBuffer(length), r))
                       /\ result' = I2cError(r)
                  ELSE /\ bus' = Append(bus, ReadCall(lastAddress, rdata, r))
                       /\ result' = IF words.tag = "Ok"
                                       THEN Ok(postprocess(lastOp, words.val))
                                       ELSE Running("read")
    /\ UNCHANGED <<mode, address, i2cOwner, delayOwner, ctor, ctorAddress,
                   lastOp, lastMode, lastAddress, lastStart, lastInput, ops>>

\* `i2c.read(address, &mut output_buffer).await?` returns, and the rest of
\* the sequence and of Command::execute runs
i2c_read_returns ==
    /\ result = Running("read")
    /\ LET length == OutputBufferLength(SequenceTypeOf(lastOp))
       IN  \E r \in Outcomes, rdata \in ReadAnswers(length) :
              LET words == ExecutionWords(SequenceTypeOf(lastOp), rdata)
              IN  IF r # "Ok"
                  THEN /\ bus' = Append(bus, ReadCall(lastAddress,
                                                      ZeroBuffer(length), r))
                       /\ result' = I2cError(r)
                  ELSE /\ bus' = Append(bus, ReadCall(lastAddress, rdata, r))
                       /\ result' = IF words.tag = "Ok"
                                       THEN Ok(postprocess(lastOp, words.val))
                                       ELSE words
    /\ UNCHANGED <<mode, address, i2cOwner, delayOwner, ctor, ctorAddress,
                   lastOp, lastMode, lastAddress, lastStart, lastInput, ops>>

ExecutionNext ==
    \/ \E cmd \in Commands : Command_execute(cmd)
    \/ i2c_write_returns
    \/ delay_ms_returns
    \/ i2c_read_returns

\* a capability call that was made returns: the caller's transport and
\* delay are assumed to complete every call
ExecutionSpec ==
    /\ ExecutionInit
    /\ [][ExecutionNext]_vars
    /\ WF_vars(i2c_write_returns)
    /\ WF_vars(delay_ms_returns)
    /\ WF_vars(i2c_read_returns)

----------------------------------------------------------------------------
(* async/sensor.rs: the handle whose operations are `async fn` *)

\* the command each `async fn` executes
AsyncCommandOf(op) ==
    CASE op = "start_periodic_measurement" -> "StartPeriodicMeasurement"
      [] op = "set_temperature_offset" -> "SetTemperatureOffset"
      [] op = "get_temperature_offset" -> "GetTemperatureOffset"
      [] op = "set_sensor_altitude" -> "SetSensorAltitude"
      [] op = "get_sensor_altitude" -> "GetSensorAltitude"
      [] op = "perform_forced_recalibration" -> "PerformForcedRecalibration"
      [] op = "set_automatic_self_calibration_enabled" ->
            "SetAutomaticSelfCalibrationEnabled"
      [] op = "get_automatic_self_calibration_enabled" ->
            "GetAutomaticSelfCalibrationEnabled"
      [] op = "start_low_power_periodic_measurement" ->
            "StartLowPowerPeriodicMeasurement"
      [] op = "persist_settings" -> "PersistSettings"
      [] op = "get_serial_number" -> "GetSerialNumber"
      [] op = "perform_self_test" -> "PerformSelfTest"
      [] op = "perform_factory_reset" -> "PerformFactoryReset"
      [] op = "reinit" -> "Reinitialize"
      [] op = "measure_single_shot" -> "MeasureSingleShot"
      [] op = "measure_single_shot_rht_only" -> "MeasureSingleShotRhtOnly"
      [] op = "read_measurement" -> "ReadMeasurement"
      [] op = "get_data_ready_status" -> "GetDataReadyStatus"
      [] op = "stop_periodic_measurement" -> "StopPeriodicMeasurement"
      [] op = "set_ambient_pressure" -> "SetAmbientPressure"

\* the constructors and the state and address of the handle each builds
AsyncConstructors ==
    {"new", "new_with_address", "new_in_measuring",
     "new_in_measuring_with_address"}

AsyncNewHandle(name, addr) ==
    [state |-> IF name \in {"new", "new_with_address"}
                  THEN "Idle" ELSE "Measuring",
     address |-> IF name \in {"new", "new_in_measuring"}
                    THEN DEFAULT_ADDRESS ELSE addr]

\* methods of `impl Scd4x<I2C, D, Idle>`, constructors left out
AsyncIdleOps ==
    {"start_periodic_measurement", "set_temperature_offset",
     "get_temperature_offset", "set_sensor_altitude", "get_sensor_altitude",
     "perform_forced_recalibration", "set_automatic_self_calibration_enabled",
     "get_automatic_self_calibration_enabled",
     "start_low_power_periodic_measurement", "persist_settings",
     "get_serial_number", "perform_self_test", "perform_factory_reset",
     "reinit", "measure_single_shot", "measure_single_shot_rht_only"}

\* methods of `impl Scd4x<I2C, D, Measuring>`, constructors left out
AsyncMeasuringOps == {"read_measurement", "get_data_ready_status"}

\* methods of `impl<S> Scd4x<I2C, D, S>`
AsyncAnyStateOps ==
    {"release", "stop_periodic_measurement", "set_ambient_pressure"}

AsyncCallableIn(op) ==
    IF op \in AsyncIdleOps THEN {"Idle"}
    ELSE IF op \in AsyncMeasuringOps THEN {"Measuring"}
    ELSE IF op \in AsyncAnyStateOps THEN {"Idle", "Measuring"}
    ELSE {}

\* the methods that take `mut self` and return a handle
AsyncConsumingOps ==
    {"start_periodic_measurement", "start_low_power_periodic_measurement",
     "measure_single_shot", "measure_single_shot_rht_only",
     "stop_periodic_measurement"}

\* every method taking `mut self` returns Scd4x<I2C, D, Measuring>
AsyncTargetModeAlwaysMeasuring(op) == "Measuring"

\* the state parameter of the handle a method taking `mut self` returns
AsyncTargetMode(op) ==
    IF op = "stop_periodic_measurement" THEN "Idle" ELSE "Measuring"

\* one `async fn` awaited to its end on a handle of state m and address
\* addr: the capability calls made, the value returned, and the state and
\* address of the handle the caller is left with
AsyncCall(op, m, addr, input, w, r, rdata) ==
    LET run == Execute(AsyncCommandOf(op), addr, input, w, r, rdata)
    IN  IF op \notin AsyncConsumingOps
        THEN [calls |-> run.calls, result |-> run.out,
              mode |-> m, address |-> addr]
        ELSE IF run.out.tag = "Ok"
        THEN [calls |-> run.calls,
              result |-> Ok([state |-> AsyncTargetMode(op), address |-> addr]),
              mode |-> AsyncTargetMode(op), address |-> addr]
        ELSE [calls |-> run.calls, result |-> run.out,
              mode |-> "Dropped", address |-> addr]

----------------------------------------------------------------------------
(* blocking/command.rs: the sequences the blocking handle executes.  They  *)
(* are the five patterns of section 4.2 of the specification: write the    *)
(* register, with the payload word and its checksum in two of them; wait   *)
(* the command's maximum duration; in three of them read three or nine     *)
(* bytes and verify each group of three.  Every failure is returned at     *)
(* once.                                                                   *)

\* the bytes written: register, then payload word and checksum if any
BlockingWritten(seqType, reg, input) ==
    IF seqType \in {"SendCommandAndFetchResultSequence", "WriteWordSequence"}
        THEN to_be_bytes(reg) \o to_be_bytes(input)
             \o <<compute(to_be_bytes(input))>>
        ELSE to_be_bytes(reg)

\* the number of bytes read
BlockingReadLength(seqType) ==
    CASE seqType = "SendCommandSequence" -> 0
      [] seqType = "SendCommandAndFetchResultSequence" -> 3
      [] seqType = "ReadWordSequence" -> 3
      [] seqType = "ReadThreeWordsSequence" -> 9
      [] seqType = "WriteWordSequence" -> 0

BlockingSequenceExecute(seqType, addr, delay, reg, input, w, r, rdata) ==
    LET write == WriteCall(addr, BlockingWritten(seqType, reg, input), w)
        wait == WaitCall(delay)
        length == BlockingReadLength(seqType)
    IN  IF w # "Ok"
        THEN [calls |-> <<write>>, out |-> I2cError(w)]
        ELSE IF length = 0
        THEN [calls |-> <<write, wait>>, out |-> Ok(Unit)]
        ELSE IF r # "Ok"
        THEN [calls |-> <<write, wait,
                          ReadCall(addr, [i \in 1..length |-> 0], r)>>,
              out |-> I2cError(r)]
        ELSE [calls |-> <<write, wait, ReadCall(addr, rdata, r)>>,
              out |-> IF length = 3
                         THEN buffer_to_word(rdata[1], rdata[2], rdata[3])
                         ELSE buffer_to_three_words(rdata)]

\* the command's input conversion, its sequence, its output conversion
BlockingExecute(cmd, addr, input, w, r, rdata) ==
    LET run == BlockingSequenceExecute(SequenceTypeOf(cmd), addr,
                                       max_duration(cmd), register(cmd),
                                       preprocess(cmd, input), w, r, rdata)
    IN  [calls |-> run.calls,
         out |-> IF run.out.tag = "Ok"
                    THEN Ok(postprocess(cmd, run.out.val))
                    ELSE run.out]

----------------------------------------------------------------------------
(* Vocabulary of the properties *)

\* a handle exists
Live == mode \in {"Idle", "Measuring"}

\* the model's bound still lets the handle execute a command
WithinBound == ops < MaxOps

\* the capability calls lastOp made
LastCalls == SubSeq(bus, lastStart + 1, Len(bus))

\* the register a bus write starts with
WrittenRegister(call) == call.data[1] * 256 + call.data[2]

Constructors ==
    {"new", "new_with_address", "new_in_measuring",
     "new_in_measuring_with_address"}

\* lastOp executed a command of the catalog
RanCommand == lastOp \notin Constructors \cup {"none", "release"}

StartOperations ==
    {"start_periodic_measurement", "start_low_power_periodic_measurement",
     "measure_single_shot", "measure_single_shot_rht_only"}

----------------------------------------------------------------------------
(* C1: an operation that was invoked was invoked in the mode that offers   *)
(* it: read_measurement and get_data_ready_status only on a Measuring      *)
(* handle; the get/set of temperature offset, altitude and automatic       *)
(* self-calibration, perform_forced_recalibration, perform_self_test,      *)
(* perform_factory_reset, persist_settings, get_serial_number and reinit   *)
(* only on an Idle handle.                                                 *)
C1_OperationsFollowMode ==
    /\ lastOp \in {"read_measurement", "get_data_ready_status"}
          => lastMode = "Measuring"
    /\ lastOp \in {"get_temperature_offset", "set_temperature_offset",
                   "get_sensor_altitude", "set_sensor_altitude",
                   "get_automatic_self_calibration_enabled",
                   "set_automatic_self_calibration_enabled",
                   "perform_forced_recalibration", "perform_self_test",
                   "perform_factory_reset", "persist_settings",
                   "get_serial_number", "reinit"}
          => lastMode = "Idle"

C1_Witness ==
    /\ ctor = "new"
    /\ lastOp = "get_data_ready_status"
    /\ lastMode = "Measuring"

----------------------------------------------------------------------------
(* C2: on a handle lineage created Idle (new, new_with_address), every bus *)
(* write of the ReadMeasurement register 0xec05 or the GetDataReadyStatus  *)
(* register 0xe4b8 comes after an accepted write of a start register       *)
(* (0x21b1, 0x21ac, 0x219d, 0x2196) with no accepted write of the stop     *)
(* register 0x3f86 between the two.                                        *)
AcceptedWriteOf(call, registers) ==
    /\ call.kind = "write"
    /\ call.outcome = "Ok"
    /\ WrittenRegister(call) \in registers

C3_StartMovesIdleToMeasuring ==
    /\ (mode = "Idle" /\ WithinBound) =>
          /\ ENABLED start_periodic_measurement
          /\ ENABLED start_low_power_periodic_measurement
          /\ ENABLED measure_single_shot
          /\ ENABLED measure_single_shot_rht_only
    /\ lastOp \in StartOperations =>
          /\ lastMode = "Idle"
          /\ LastCalls[1].outcome = "Ok" =>
                /\ mode = "Measuring"
                /\ address = lastAddress
                /\ i2cOwner = "handle"
                /\ delayOwner = "handle"
    /\ (lastMode = "Idle" /\ mode = "Measuring") =>
          lastOp \in StartOperations

C3_Witness ==
    /\ lastOp = "start_low_power_periodic_measurement"
    /\ lastMode = "Idle"
    /\ mode = "Measuring"
    /\ address = 99
    /\ i2cOwner = "handle"
    /\ delayOwner = "handle"

(* C4: stop_periodic_measurement is invocable on every handle, Idle or     *)
(* Measuring; it always writes register 0x3f86, also on an Idle handle;    *)
(* when it succeeds the handle is Idle; and a step from Measuring to Idle  *)
(* is a step of stop_periodic_measurement.                                 *)
C4_StopFromAnyMode ==
    /\ (Live /\ WithinBound) => ENABLED stop_periodic_measurement
    /\ lastOp = "stop_periodic_measurement" =>
          /\ lastMode \in {"Idle", "Measuring"}
          /\ Len(LastCalls) >= 1
          /\ LastCalls[1].kind = "write"
          /\ LastCalls[1].data = <<63, 134>>
          /\ result.tag = "Ok" => mode = "Idle"
    /\ (lastMode = "Measuring" /\ mode = "Idle") =>
          lastOp = "stop_periodic_measurement"

C4_Witness ==
    /\ lastOp = "stop_periodic_measurement"
    /\ lastMode = "Measuring"
    /\ mode = "Idle"
    /\ LastCalls[1].data = <<63, 134>>

(* C5: set_ambient_pressure and release are invocable on every handle,     *)
(* Idle or Measuring, and set_ambient_pressure leaves the mode as it was,  *)
(* whether it succeeds or fails.                                           *)
C5_PressureAndReleaseInAnyMode ==
    /\ Live => ENABLED release
    /\ (Live /\ WithinBound) => ENABLED set_ambient_pressure
    /\ lastOp = "set_ambient_pressure" =>
          /\ lastMode \in {"Idle", "Measuring"}
          /\ mode = lastMode

C5_Witness ==
    /\ lastOp = "set_ambient_pressure"
    /\ lastMode = "Measuring"
    /\ mode = "Measuring"
    /\ result.tag = "I2c"

----------------------------------------------------------------------------
(* C6: new and new_with_address build an Idle handle, new_in_measuring and *)
(* new_in_measuring_with_address a Measuring handle; no constructor calls  *)
(* the transport or the delay; and a handle built in Measuring can run     *)
(* read_measurement or get_data_ready_status as the first bus transaction  *)
(* of the lineage, no start command before it.                             *)
C6_Constructors ==
    /\ lastOp \in {"new", "new_with_address"} =>
          mode = "Idle" /\ bus = <<>>
    /\ lastOp \in {"new_in_measuring", "new_in_measuring_with_address"} =>
          /\ mode = "Measuring"
          /\ bus = <<>>
          /\ WithinBound =>
                /\ ENABLED read_measurement
                /\ ENABLED get_data_ready_status

C6_Witness ==
    /\ ctor = "new_in_measuring"
    /\ lastOp = "read_measurement"
    /\ lastStart = 0
    /\ bus[1] = WriteCall(98, <<236, 5>>, "Ok")

(* C7: a handle built by new or new_in_measuring has address 0x62, one     *)
(* built by a *_with_address constructor the address supplied; the address *)
(* is the same in every later state of the lineage, and every bus write    *)
(* and bus read targets it.                                                *)
C7_AddressIsFixed ==
    LET built == IF ctor \in {"new", "new_in_measuring"} THEN 98 ELSE ctorAddress
    IN  /\ Live => address = built
        /\ (Live /\ lastOp \notin Constructors) => address = lastAddress
        /\ \A i \in 1..Len(bus) :
              bus[i].kind \in {"write", "read"} => bus[i].address = built

C7_Witness ==
    /\ ctor = "new_with_address"
    /\ mode = "Measuring"
    /\ address = 99
    /\ \E i \in 1..Len(bus) : bus[i].kind = "read" /\ bus[i].address = 99

(* C8: in every command execution the capability calls come in the order   *)
(* write, wait, read: the write is first, the wait follows every write the *)
(* bus accepted and is given the maximum duration the command declares, in *)
(* milliseconds, and a read (reading patterns only) comes after the wait.  *)
(* A write the bus rejects ends the execution.                             *)
ReadingSequences ==
    {"ReadWordSequence", "ReadThreeWordsSequence",
     "SendCommandAndFetchResultSequence"}

C9_SendOnly ==
    (/\ RanCommand
     /\ CommandOf(lastOp) \in
            {"Reinitialize", "StartPeriodicMeasurement",
             "StopPeriodicMeasurement", "StartLowPowerPeriodicMeasurement",
             "MeasureSingleShot", "MeasureSingleShotRhtOnly",
             "PersistSettings", "PerformFactoryReset"})
    => LET calls == LastCalls
           reg == register(CommandOf(lastOp))
       IN  /\ Cardinality({i \in 1..Len(calls) : calls[i].kind = "write"}) = 1
           /\ calls[1].kind = "write"
           /\ Len(calls[1].data) = 2
           /\ calls[1].data[1] = reg \div 256
           /\ calls[1].data[2] = reg % 256
           /\ \A i \in 1..Len(calls) : calls[i].kind # "read"
           /\ IF calls[1].outcome = "Ok"
                 THEN Len(calls) = 2 /\ calls[2].kind = "wait"
                 ELSE Len(calls) = 1

C9_Witness ==
    /\ lastOp = "reinit"
    /\ LastCalls = <<WriteCall(98, <<54, 70>>, "Ok"), WaitCall(20)>>
    /\ result = Ok(Unit)

(* C10: a read-word command makes one 2-byte write of its register, high   *)
(* byte first, one wait, then one 3-byte read; when the third byte read is *)
(* the checksum of the first two it returns the word byte0 * 256 + byte1   *)
(* (as the command's postprocess presents it), otherwise ChecksumMismatch. *)
(* The write, the wait and the read are those of a bus that accepts them.  *)
C10_ReadWord ==
    (/\ RanCommand
     /\ CommandOf(lastOp) \in
            {"GetTemperatureOffset", "GetSensorAltitude",
             "GetDataReadyStatus", "PerformSelfTest",
             "GetAutomaticSelfCalibrationEnabled"})
    => LET calls == LastCalls
           cmd == CommandOf(lastOp)
           reg == register(cmd)
       IN  /\ Cardinality({i \in 1..Len(calls) : calls[i].kind = "write"}) = 1
           /\ calls[1].kind = "write"
           /\ calls[1].data = <<reg \div 256, reg % 256>>
           /\ calls[1].outcome = "Ok" =>
                 /\ Len(calls) = 3
                 /\ calls[2].kind = "wait"
                 /\ calls[3].kind = "read"
                 /\ Len(calls[3].data) = 3
                 /\ calls[3].outcome = "Ok" =>
                       LET data == calls[3].data
                       IN  IF data[3] = compute(<<data[1], data[2]>>)
                              THEN result =
                                     Ok(postprocess(cmd, data[1] * 256 + data[2]))
                              ELSE result.tag = "ChecksumMismatch"

C10_Witness ==
    /\ lastOp = "get_sensor_altitude"
    /\ Len(LastCalls) = 3
    /\ LastCalls[3].data = <<4, 76, 66>>
    /\ result = Ok(1100 * Fraction)

----------------------------------------------------------------------------
(* C11: a read-three-words command (GetSerialNumber, ReadMeasurement)      *)
(* makes one 2-byte write of its register, high byte first, one wait, then *)
(* a single 9-byte read; each 3-byte group is verified against its own     *)
(* third byte; when the three checksums match it returns the words of      *)
(* group 0, group 1 and group 2 in that order, each byte0 * 256 + byte1    *)
(* (as the command's postprocess presents them), otherwise                 *)
(* ChecksumMismatch.  The write, the wait and the read are those of a bus  *)
(* that accepts them.                                                      *)
GroupMatches(data, g) ==
    data[3 * g + 3] = compute(<<data[3 * g + 1], data[3 * g + 2]>>)

GroupWord(data, g) == data[3 * g + 1] * 256 + data[3 * g + 2]

C11_ReadThreeWords ==
    (/\ RanCommand
     /\ CommandOf(lastOp) \in {"GetSerialNumber", "ReadMeasurement"})
    => LET calls == LastCalls
           cmd == CommandOf(lastOp)
           reg == register(cmd)
       IN  /\ Cardinality({i \in 1..Len(calls) : calls[i].kind = "write"}) = 1
           /\ Cardinality({i \in 1..Len(calls) : calls[i].kind = "read"}) <= 1
           /\ calls[1].kind = "write"
           /\ calls[1].data = <<reg \div 256, reg % 256>>
           /\ calls[1].outcome = "Ok" =>
                 /\ Len(calls) = 3
                 /\ calls[2].kind = "wait"
                 /\ calls[3].kind = "read"
                 /\ Len(calls[3].data) = 9
                 /\ calls[3].outcome = "Ok" =>
                       LET data == calls[3].data
                       IN  IF \A g \in 0..2 : GroupMatches(data, g)
                              THEN result =
                                     Ok(postprocess(cmd,
                                            <<GroupWord(data, 0),
                                              GroupWord(data, 1),
                                              GroupWord(data, 2)>>))
                              ELSE result.tag = "ChecksumMismatch"

C11_Witness ==
    /\ lastOp = "get_serial_number"
    /\ Len(LastCalls) = 3
    /\ LastCalls[1].data = <<54, 130>>
    /\ LastCalls[3].data = <<1, 244, 51, 102, 103, 162, 94, 185, 60>>
    /\ result = Ok(U64(0, 500, 26215, 24249))

(* C12: a write-word command (SetTemperatureOffset, SetSensorAltitude,     *)
(* SetAmbientPressure, SetAutomaticSelfCalibrationEnabled) makes exactly   *)
(* one bus write, of exactly 5 bytes: the register high byte, the register *)
(* low byte, the payload high byte, the payload low byte and the checksum  *)
(* of the two payload bytes, the register left out; one wait follows the   *)
(* write the bus accepted; it makes no bus read.                           *)
C12_WriteWord ==
    (/\ RanCommand
     /\ CommandOf(lastOp) \in
            {"SetTemperatureOffset", "SetSensorAltitude",
             "SetAmbientPressure", "SetAutomaticSelfCalibrationEnabled"})
    => LET calls == LastCalls
           cmd == CommandOf(lastOp)
           reg == register(cmd)
           payload == preprocess(cmd, lastInput)
       IN  /\ Cardinality({i \in 1..Len(calls) : calls[i].kind = "write"}) = 1
           /\ calls[1].kind = "write"
           /\ Len(calls[1].data) = 5
           /\ calls[1].data[1] = reg \div 256
           /\ calls[1].data[2] = reg % 256
           /\ calls[1].data[3] = payload \div 256
           /\ calls[1].data[4] = payload % 256
           /\ calls[1].data[5] =
                 compute(<<calls[1].data[3], calls[1].data[4]>>)
           /\ \A i \in 1..Len(calls) : calls[i].kind # "read"
           /\ IF calls[1].outcome = "Ok"
                 THEN Len(calls) = 2 /\ calls[2].kind = "wait"
                 ELSE Len(calls) = 1

C12_Witness ==
    /\ lastOp = "set_sensor_altitude"
    /\ LastCalls = <<WriteCall(98, <<36, 39, 7, 158, 9>>, "Ok"), WaitCall(1)>>
    /\ result = Ok(Unit)

(* C13: PerformForcedRecalibration, the send-with-fetch command, makes one *)
(* 5-byte write (register 0x362f high byte first, the payload word high    *)
(* byte first, the checksum of the two payload bytes), then one wait, then *)
(* one 3-byte read; the word read is returned (as postprocess presents it) *)
(* only when the third byte read is the checksum of the first two,         *)
(* otherwise the result is ChecksumMismatch.  The wait and the read are    *)
(* those of a bus that accepts the write.                                  *)
C13_SendWithFetch ==
    lastOp = "perform_forced_recalibration"
    => LET calls == LastCalls
           cmd == CommandOf(lastOp)
           payload == preprocess(cmd, lastInput)
       IN  /\ Cardinality({i \in 1..Len(calls) : calls[i].kind = "write"}) = 1
           /\ Cardinality({i \in 1..Len(calls) : calls[i].kind = "read"}) <= 1
           /\ calls[1].kind = "write"
           /\ Len(calls[1].data) = 5
           /\ calls[1].data[1] = 54
           /\ calls[1].data[2] = 47
           /\ calls[1].data[3] = payload \div 256
           /\ calls[1].data[4] = payload % 256
           /\ calls[1].data[5] =
                 compute(<<calls[1].data[3], calls[1].data[4]>>)
           /\ calls[1].outcome = "Ok" =>
                 /\ Len(calls) = 3
                 /\ calls[2].kind = "wait"
                 /\ calls[3].kind = "read"
                 /\ Len(calls[3].data) = 3
                 /\ calls[3].outcome = "Ok" =>
                       LET data == calls[3].data
                       IN  IF data[3] = compute(<<data[1], data[2]>>)
                              THEN result =
                                     Ok(postprocess(cmd, data[1] * 256 + data[2]))
                              ELSE result.tag = "ChecksumMismatch"

C13_Witness ==
    /\ lastOp = "perform_forced_recalibration"
    /\ Len(LastCalls) = 3
    /\ LastCalls[1] = WriteCall(98, <<54, 47, 1, 224, 180>>, "Ok")
    /\ LastCalls[2].kind = "wait"
    /\ LastCalls[3] = ReadCall(98, <<128, 0, 162>>, "Ok")
    /\ result = Ok(Some(0))

----------------------------------------------------------------------------
(* C14: perform_forced_recalibration waits 400 ms between its write and    *)
(* its read: the value it passes to the delay capability is 400            *)
(* milliseconds.                                                           *)
C14_ForcedRecalibrationWaits400 ==
    (lastOp = "perform_forced_recalibration" /\ Len(LastCalls) >= 2)
    => /\ LastCalls[2].kind = "wait"
       /\ LastCalls[2].ms = 400

----------------------------------------------------------------------------
(* C15: every public operation writes, as the first two bytes of its bus   *)
(* write, the register the catalog fixes for it (reinit 0x3646,            *)
(* get_serial_number 0x3682, read_measurement 0xec05, ... as listed in     *)
(* CatalogRegister), and no two operations share a register.               *)
CatalogRegister(op) ==
    CASE op = "reinit" -> <<54, 70>>                                  \* 0x3646
      [] op = "get_serial_number" -> <<54, 130>>                      \* 0x3682
      [] op = "read_measurement" -> <<236, 5>>                        \* 0xec05
      [] op = "start_periodic_measurement" -> <<33, 177>>             \* 0x21b1
      [] op = "stop_periodic_measurement" -> <<63, 134>>              \* 0x3f86
      [] op = "get_temperature_offset" -> <<35, 24>>                  \* 0x2318
      [] op = "set_temperature_offset" -> <<36, 29>>                  \* 0x241d
      [] op = "get_sensor_altitude" -> <<35, 34>>                     \* 0x2322
      [] op = "set_sensor_altitude" -> <<36, 39>>                     \* 0x2427
      [] op = "set_ambient_pressure" -> <<224, 0>>                    \* 0xe000
      [] op = "start_low_power_periodic_measurement" -> <<33, 172>>   \* 0x21ac
      [] op = "get_data_ready_status" -> <<228, 184>>                 \* 0xe4b8
      [] op = "perform_self_test" -> <<54, 57>>                       \* 0x3639
      [] op = "measure_single_shot" -> <<33, 157>>                    \* 0x219d
      [] op = "measure_single_shot_rht_only" -> <<33, 150>>           \* 0x2196
      [] op = "persist_settings" -> <<54, 21>>                        \* 0x3615
      [] op = "perform_forced_recalibration" -> <<54, 47>>            \* 0x362f
      [] op = "get_automatic_self_calibration_enabled" -> <<35, 19>>  \* 0x2313
      [] op = "set_automatic_self_calibration_enabled" -> <<36, 22>>  \* 0x2416
      [] op = "perform_factory_reset" -> <<54, 50>>                   \* 0x3632

CommandOperations == (IdleOps \cup MeasuringOps \cup AnyStateOps) \ {"release"}

\* the twenty operations have twenty registers
RegistersAreDistinct ==
    /\ Cardinality(CommandOperations) = 20
    /\ Cardinality({register(CommandOf(op)) : op \in CommandOperations}) = 20

C15_Registers ==
    /\ RanCommand =>
          /\ lastOp \in CommandOperations
          /\ LastCalls[1].kind = "write"
          /\ Len(LastCalls[1].data) >= 2
          /\ SubSeq(LastCalls[1].data, 1, 2) = CatalogRegister(lastOp)
    /\ RegistersAreDistinct

C15_Witness ==
    /\ lastOp = "measure_single_shot_rht_only"
    /\ lastStart = 2
    /\ bus[1].data = <<54, 50>>
    /\ bus[3].data = <<33, 150>>

----------------------------------------------------------------------------
(* C16: every command whose pattern is send-only, read-word,               *)
(* read-three-words or write-word waits exactly once after the write the   *)
(* bus accepted, and the wait is the catalog's maximum duration:           *)
(* Reinitialize 20 ms, StartPeriodicMeasurement 0 ms,                      *)
(* StartLowPowerPeriodicMeasurement 0 ms, StopPeriodicMeasurement 500 ms,  *)
(* MeasureSingleShot 5000 ms, MeasureSingleShotRhtOnly 50 ms,              *)
(* PersistSettings 800 ms, PerformFactoryReset 1200 ms, PerformSelfTest    *)
(* 10000 ms, and 1 ms for GetSerialNumber, ReadMeasurement,                *)
(* Get/SetTemperatureOffset, Get/SetSensorAltitude, SetAmbientPressure,    *)
(* GetDataReadyStatus and Get/SetAutomaticSelfCalibrationEnabled.          *)
CatalogDuration(cmd) ==
    CASE cmd = "Reinitialize" -> 20
      [] cmd = "StartPeriodicMeasurement" -> 0
      [] cmd = "StartLowPowerPeriodicMeasurement" -> 0
      [] cmd = "StopPeriodicMeasurement" -> 500
      [] cmd = "MeasureSingleShot" -> 5000
      [] cmd = "MeasureSingleShotRhtOnly" -> 50
      [] cmd = "PersistSettings" -> 800
      [] cmd = "PerformFactoryReset" -> 1200
      [] cmd = "PerformSelfTest" -> 10000
      [] cmd \in {"GetSerialNumber", "ReadMeasurement",
                  "GetTemperatureOffset", "SetTemperatureOffset",
                  "GetSensorAltitude", "SetSensorAltitude",
                  "SetAmbientPressure", "GetDataReadyStatus",
                  "GetAutomaticSelfCalibrationEnabled",
                  "SetAutomaticSelfCalibrationEnabled"} -> 1

C16_Durations ==
    (/\ RanCommand
     /\ SequenceTypeOf(CommandOf(lastOp)) \in
            {"SendCommandSequence", "ReadWordSequence",
             "ReadThreeWordsSequence", "WriteWordSequence"})
    => LET calls == LastCalls
           waits == {i \in 1..Len(calls) : calls[i].kind = "wait"}
       IN  /\ \A i \in waits :
                 calls[i].ms = CatalogDuration(CommandOf(lastOp))
           /\ IF calls[1].outcome = "Ok"
                 THEN waits = {2}
                 ELSE waits = {}

C16_Witness ==
    /\ lastOp = "measure_single_shot"
    /\ lastStart = 2
    /\ bus[2] = WaitCall(800)
    /\ bus[4] = WaitCall(5000)

----------------------------------------------------------------------------
(* C17: for every 2-byte buffer and every expected byte, verify succeeds   *)
(* if and only if compute of the buffer equals the expected byte; when it  *)
(* fails the error is ChecksumMismatch, its field actual the value of      *)
(* compute and its field expected the byte that was supplied.              *)
C17_VerifyIffComputeMatches ==
    lastOp = "verify_checksum" =>
        LET data == lastInput.data
            expected == lastInput.expected
        IN  /\ result.tag = "Ok" <=> compute(data) = expected
            /\ result.tag # "Ok" =>
                  /\ result.tag = "ChecksumMismatch"
                  /\ result.actual = compute(data)
                  /\ result.expected = expected

C17_Witness ==
    /\ lastOp = "verify_checksum"
    /\ lastInput = [data |-> <<190, 239>>, expected |-> 147]
    /\ result = [tag |-> "ChecksumMismatch", actual |-> 146, expected |-> 147]

(* C18: for every 2-byte buffer, compute returns the CRC-8 of the two      *)
(* bytes with polynomial 0x31, initial value 0xFF, no reflection and no    *)
(* final XOR: per byte, the byte is XORed into the 8-bit register, then 8  *)
(* times the register is shifted left modulo 256 and XORed with 0x31 when  *)
(* its bit 7 was set.  In particular 0xbeef gives 0x92, 0xffff 0xac,       *)
(* 0xf896 0x31, 0x9f07 0xc2, 0x3bbe 0x89, 0x5eb9 0x3c, 0x6667 0xa2 and     *)
(* 0x01f4 0x33.                                                            *)
RECURSIVE Crc8Turns(_, _)
Crc8Turns(reg, turns) ==
    IF turns = 0 THEN reg
    ELSE Crc8Turns(IF reg >= 128
                      THEN BitXor((2 * reg) % 256, 49)
                      ELSE (2 * reg) % 256,
                   turns - 1)

Crc8(byte0, byte1) ==
    Crc8Turns(BitXor(Crc8Turns(BitXor(255, byte0), 8), byte1), 8)

Crc8Samples ==
    {<<190, 239, 146>>, <<255, 255, 172>>, <<248, 150, 49>>,
     <<159, 7, 194>>, <<59, 190, 137>>, <<94, 185, 60>>,
     <<102, 103, 162>>, <<1, 244, 51>>}

C18_ComputeIsCrc8 ==
    lastOp = "compute_checksum" =>
        LET data == lastInput.data
        IN  /\ result \in 0..255
            /\ result = Crc8(data[1], data[2])
            /\ \A sample \in Crc8Samples :
                  data = <<sample[1], sample[2]>> => result = sample[3]

C18_Witness ==
    /\ lastOp = "compute_checksum"
    /\ lastInput.data = <<190, 239>>
    /\ result = 146

(* C19: for every 2-byte buffer, verify given the buffer and compute of    *)
(* the buffer succeeds, and verify given the buffer and compute of the     *)
(* buffer XOR 0xFF fails with ChecksumMismatch.                            *)
C19_VerifyAcceptsComputeOnly ==
    lastOp = "verify_checksum" =>
        LET data == lastInput.data
        IN  /\ lastInput.expected = compute(data) => result = Ok(Unit)
            /\ lastInput.expected = BitXor(compute(data), 255) =>
                  result.tag = "ChecksumMismatch"

C19_Witness ==
    /\ lastOp = "verify_checksum"
    /\ lastInput = [data |-> <<255, 255>>, expected |-> 83]
    /\ BitXor(compute(<<255, 255>>), 255) = 83
    /\ result.tag = "ChecksumMismatch"

----------------------------------------------------------------------------
(* C20: no failure is retried: one invocation of an operation makes at     *)
(* most one bus write and at most one bus read, also when the write, the   *)
(* read or the verification of a checksum fails, and the failure is what   *)
(* the operation returns to its caller.                                    *)
C20_NoRetry ==
    RanCommand =>
        LET calls == LastCalls
            writes == {i \in 1..Len(calls) : calls[i].kind = "write"}
            reads == {i \in 1..Len(calls) : calls[i].kind = "read"}
        IN  /\ Cardinality(writes) <= 1
            /\ Cardinality(reads) <= 1
            /\ \A i \in writes \cup reads :
                  calls[i].outcome # "Ok" =>
                      /\ i = Len(calls)
                      /\ result = I2cError(calls[i].outcome)
            /\ \A i \in reads :
                  (/\ calls[i].outcome = "Ok"
                   /\ \E g \in 0..((Len(calls[i].data) \div 3) - 1) :
                         ~GroupMatches(calls[i].data, g))
                  => /\ i = Len(calls)
                     /\ result.tag = "ChecksumMismatch"

C20_Witness ==
    /\ lastOp = "read_measurement"
    /\ Len(LastCalls) = 3
    /\ LastCalls[3] =
          ReadCall(98, <<1, 244, 51, 102, 103, 163, 94, 185, 60>>, "Ok")
    /\ result = ChecksumMismatch(162, 163)

----------------------------------------------------------------------------
(* C21: when a group of the 9 bytes read by get_serial_number or           *)
(* read_measurement has a wrong checksum, the operation returns            *)
(* ChecksumMismatch and no serial number or Sample, also when the other    *)
(* groups are valid; the error is that of the first group, in wire order,  *)
(* whose checksum does not match.                                          *)
C21_FirstFailingGroup ==
    (/\ lastOp \in {"get_serial_number", "read_measurement"}
     /\ Len(LastCalls) = 3
     /\ LastCalls[3].kind = "read"
     /\ LastCalls[3].outcome = "Ok")
    => LET data == LastCalls[3].data
           failing == {g \in 0..2 : ~GroupMatches(data, g)}
       IN  failing # {} =>
              LET first == CHOOSE g \in failing : \A h \in failing : g <= h
              IN  /\ result.tag = "ChecksumMismatch"
                  /\ result.actual =
                        compute(<<data[3 * first + 1], data[3 * first + 2]>>)
                  /\ result.expected = data[3 * first + 3]

C21_Witness ==
    /\ lastOp = "get_serial_number"
    /\ Len(LastCalls) = 3
    /\ LastCalls[3] =
          ReadCall(98, <<1, 244, 50, 102, 103, 162, 94, 185, 61>>, "Ok")
    /\ result = ChecksumMismatch(51, 50)

RECURSIVE BitOr(_, _)
BitOr(a, b) ==
    IF a = 0 THEN b
    ELSE IF b = 0 THEN a
    ELSE (IF (a % 2) + (b % 2) > 0 THEN 1 ELSE 0)
         + 2 * BitOr(a \div 2, b \div 2)

\* the bitwise OR of two 64-bit values, limb by limb
U64Or(x, y) == [i \in 1..4 |-> BitOr(x[i], y[i])]

\* a 64-bit value divided by a divisor below 2^15: quotient and remainder
U64DivMod(x, d) ==
    LET q3 == x[1] \div d
        r3 == x[1] % d
        q2 == (r3 * 65536 + x[2]) \div d
        r2 == (r3 * 65536 + x[2]) % d
        q1 == (r2 * 65536 + x[3]) \div d
        r1 == (r2 * 65536 + x[3]) % d
        q0 == (r1 * 65536 + x[4]) \div d
        r0 == (r1 * 65536 + x[4]) % d
    IN  [quotient |-> <<q3, q2, q1, q0>>, remainder |-> r0]

\* the decimal digits of a 64-bit value in groups of four, most
\* significant group first
Decimal(x) ==
    LET d0 == U64DivMod(x, 10000)
        d1 == U64DivMod(d0.quotient, 10000)
        d2 == U64DivMod(d1.quotient, 10000)
        d3 == U64DivMod(d2.quotient, 10000)
        d4 == U64DivMod(d3.quotient, 10000)
    IN  <<d4.remainder, d3.remainder, d2.remainder, d1.remainder,
          d0.remainder>>

\* C22: the serial number of three words w0, w1, w2, which the code
\* computes as the sum (w0 << 32) + (w1 << 16) + w2, equals the bitwise OR
\* (w0 << 32) | (w1 << 16) | w2 and is below 2^48; its three low 16-bit
\* limbs are the words, so distinct triples give distinct serial numbers;
\* the words (0xf896, 0x9f07, 0x3bbe) give 273325796834238.
C22_SerialNumber ==
    lastOp = "GetSerialNumber_postprocess"
    => LET w == lastInput.value
       IN  /\ result = U64Or(U64Or(<<0, w[1], 0, 0>>, <<0, 0, w[2], 0>>),
                             <<0, 0, 0, w[3]>>)
           /\ result[1] = 0
           /\ <<result[2], result[3], result[4]>> = w
           /\ w = <<63638, 40711, 15294>>
                  => Decimal(result) = <<0, 273, 3257, 9683, 4238>>

C22_Witness ==
    /\ lastOp = "GetSerialNumber_postprocess"
    /\ lastInput.value = <<63638, 40711, 15294>>
    /\ Decimal(result) = <<0, 273, 3257, 9683, 4238>>

\* C23: get_data_ready_status answers true exactly when one of the low 11
\* bits of the received word is set, that is when the word is not a
\* multiple of 2^11: bits 11 to 15 have no influence, and the word 0x8000
\* gives not ready.
C23_DataReadyLow11Bits ==
    lastOp = "GetDataReadyStatus_postprocess"
    => /\ result = (lastInput.value % 2048 # 0)
       /\ lastInput.value = 32768 => result = FALSE

C23_Witness ==
    /\ lastOp = "GetDataReadyStatus_postprocess"
    /\ lastInput.value = 32768
    /\ result = FALSE

\* C24: perform_forced_recalibration answers None exactly when the
\* response word is 0xffff; for any other word it answers the correction
\* word - 0x8000 in ppm, a signed 16-bit value between -32768 and 32766;
\* 480 ppm is sent as the word 0x01e0 and the response 0x7fce gives -50 ppm.
C24_ForcedRecalibrationCorrection ==
    /\ lastOp = "PerformForcedRecalibration_postprocess"
       => LET word == lastInput.value
          IN  /\ (result = None) <=> (word = 65535)
              /\ word # 65535
                 => /\ result = Some((word - 32768) * Fraction)
                    /\ result.value >= (0 - 32768) * Fraction
                    /\ result.value <= 32766 * Fraction
              /\ word = 32718 => result = Some((0 - 50) * Fraction)
    /\ (lastOp = "PerformForcedRecalibration_preprocess"
        /\ lastInput.value = 480 * Fraction)
       => result = 480

C24_Witness ==
    /\ lastOp = "PerformForcedRecalibration_postprocess"
    /\ lastInput.value = 32718
    /\ result = Some((0 - 50) * Fraction)

\* C25: set_automatic_self_calibration_enabled sends the word 1 for true
\* and the word 0 for false; get_automatic_self_calibration_enabled answers
\* true exactly when bit 0 of the received word is set, that is when the
\* word is odd; decoding the word the setter sends for b gives b.
C25_AutomaticSelfCalibration ==
    /\ lastOp = "SetAutomaticSelfCalibrationEnabled_preprocess"
       => /\ lastInput.value = TRUE => result = 1
          /\ lastInput.value = FALSE => result = 0
    /\ lastOp = "GetAutomaticSelfCalibrationEnabled_postprocess"
       => result = (lastInput.value % 2 = 1)
    /\ lastOp = "AutomaticSelfCalibration_set_get"
       => result = lastInput.value

C25_Witness ==
    /\ lastOp = "AutomaticSelfCalibration_set_get"
    /\ lastInput.value = TRUE
    /\ result = TRUE

\* the integer nearest to a non-negative quantity counted in 1/unit steps
RoundToNearest(value, unit) == (2 * value + unit) \div (2 * unit)

\* C26: set_temperature_offset sends the word round(65536 * celsius / 175),
\* the scaled offset rounded to the nearest integer, for every offset whose
\* scaled value lies in 0..65535; 5.4 degrees are sent as the word 0x07e6.
C26_TemperatureOffsetIsRounded ==
    (/\ lastOp = "SetTemperatureOffset_preprocess"
     /\ lastInput.value >= 0
     /\ lastInput.value <= 175 * 65535)
    => /\ result = RoundToNearest(lastInput.value, 175)
       /\ lastInput.value = 353894 => result = 2022

\* C27: for every 16-bit word w, temperature_offset_to_word applied to
\* word_to_temperature_offset(w) gives w again; the offset 175 * w / 65536
\* is exact, 175 * w being below 2^24.
C27_TemperatureOffsetRoundTrip ==
    lastOp = "TemperatureOffset_get_set"
    => /\ result = lastInput.value
       /\ 175 * lastInput.value < 16777216

C27_Witness ==
    /\ lastOp = "TemperatureOffset_get_set"
    /\ lastInput.value = 2322
    /\ result = 2322

\* the word is the integer part of a quantity counted in 1/16 steps
IsIntegerPartOf(word, value) ==
    /\ word * Fraction <= value
    /\ value < (word + 1) * Fraction

\* the integer part of a quantity counted in 1/16 steps is a 16-bit word
InWordRange(value) == value >= 0 /\ value < 65536 * Fraction

\* C28: for an altitude or an ambient pressure from 0 up to 65535 and a
\* fraction, set_sensor_altitude and set_ambient_pressure send its integer
\* part, truncated and never rounded up (1950 m is sent as 0x079e, 987 hPa
\* as 0x03db); get_sensor_altitude answers the received word as metres
\* (0x044c gives 1100 m); so altitude_to_word(word_to_altitude(w)) = w for
\* every word w.
C28_AltitudeAndPressureTruncate ==
    /\ (lastOp = "SetSensorAltitude_preprocess"
        /\ InWordRange(lastInput.value))
       => /\ IsIntegerPartOf(result, lastInput.value)
          /\ lastInput.value = 1950 * Fraction => result = 1950
    /\ (lastOp = "SetAmbientPressure_preprocess"
        /\ InWordRange(lastInput.value))
       => /\ IsIntegerPartOf(result, lastInput.value)
          /\ lastInput.value = 987 * Fraction => result = 987
    /\ lastOp = "GetSensorAltitude_postprocess"
       => /\ IsIntegerPartOf(lastInput.value, result)
          /\ result % Fraction = 0
          /\ lastInput.value = 1100 => result = 1100 * Fraction
    /\ lastOp = "SensorAltitude_get_set"
       => result = lastInput.value

C28_Witness ==
    /\ lastOp = "SetSensorAltitude_preprocess"
    /\ lastInput.value = 1950 * Fraction + 8
    /\ result = 1950

\* a non-negative quantity counted in 1/65536 steps, as its integer part
\* and its fraction rounded to six decimal places
SixDecimals(value) ==
    <<value \div Scale,
      (2 * 1000000 * (value % Scale) + Scale) \div (2 * Scale)>>

\* C29: read_measurement maps the three received words to the Sample field
\* by field and in order: co2 is w0 ppm, temperature is -45 + 175 * w1 / 65536
\* degrees, humidity is 100 * w2 / 65536 percent, each field a function of
\* its own word only; the words (0x01f4, 0x6667, 0x5eb9) give 500 ppm,
\* 25.001602 degrees and 37.001038 percent.
C29_SampleFieldByField ==
    lastOp = "ReadMeasurement_postprocess"
    => LET w == lastInput.value
       IN  /\ DOMAIN result = {"co2", "temperature", "humidity"}
           /\ result.co2 = w[1] * Fraction
           /\ result.temperature + 45 * Scale = 175 * w[2]
           /\ result.humidity = 100 * w[3]
           /\ w = <<500, 26215, 24249>>
              => /\ result.co2 = 500 * Fraction
                 /\ SixDecimals(result.temperature) = <<25, 1602>>
                 /\ SixDecimals(result.humidity) = <<37, 1038>>

C29_Witness ==
    /\ lastOp = "ReadMeasurement_postprocess"
    /\ lastInput.value = <<500, 26215, 24249>>
    /\ result = [co2 |-> 8000, temperature |-> 1638505, humidity |-> 2424900]

\* the two handles have the same constructors, the same operations in the
\* same modes, and the same command behind each operation
HandlesOfferTheSame ==
    /\ AsyncConstructors = Constructors
    /\ AsyncIdleOps \cup AsyncMeasuringOps \cup AsyncAnyStateOps
          = IdleOps \cup MeasuringOps \cup AnyStateOps
    /\ \A op \in IdleOps \cup MeasuringOps \cup AnyStateOps :
          AsyncCallableIn(op) = CallableIn(op)
    /\ \A op \in CommandOperations : AsyncCommandOf(op) = CommandOf(op)

\* what the transport answered to the write and to the read of lastOp
LastWriteOutcome == LastCalls[1].outcome

LastReadOutcome == IF Len(LastCalls) >= 3 THEN LastCalls[3].outcome ELSE "Ok"

LastReadData == IF Len(LastCalls) >= 3 THEN LastCalls[3].data ELSE <<>>

----------------------------------------------------------------------------
(* C31: a transport failure ends the sequence at the failing step.  When   *)
(* the bus rejects the write, the operation returns the I2c error with the *)
(* kind the transport reported, and the write is its only capability call: *)
(* no wait, no read.  When the bus rejects the read, the operation returns *)
(* the I2c error with that kind: neither a value nor a checksum mismatch,  *)
(* and the read is its last capability call.                               *)
C31_TransportFailureAborts ==
    RanCommand =>
        LET calls == LastCalls
        IN  /\ calls[1].outcome # "Ok"
               => /\ Len(calls) = 1
                  /\ calls[1].kind = "write"
                  /\ result = I2cError(calls[1].outcome)
            /\ (Len(calls) = 3 /\ calls[3].outcome # "Ok")
               => /\ calls[3].kind = "read"
                  /\ result = I2cError(calls[3].outcome)
            /\ result.tag = "I2c"
               => calls[Len(calls)].outcome = result.kind

C31_Witness ==
    /\ lastOp = "get_sensor_altitude"
    /\ Len(LastCalls) = 3
    /\ LastCalls[1].outcome = "Ok"
    /\ LastCalls[3].outcome = "NoAcknowledge"
    /\ result = I2cError("NoAcknowledge")

----------------------------------------------------------------------------
(* C32: an operation that is not a mode transition (every get and set      *)
(* operation, perform_forced_recalibration, perform_self_test,             *)
(* perform_factory_reset, persist_settings, reinit, read_measurement)      *)
(* leaves the mode and the address of the handle as they were, when it     *)
(* succeeds and when it returns an I2c or ChecksumMismatch error; after    *)
(* the error the handle still owns the transport and the delay, and its    *)
(* operations can be invoked again.                                        *)
TransitionOperations == StartOperations \cup {"stop_periodic_measurement"}

C32_NonTransitionsKeepTheHandle ==
    (RanCommand /\ lastOp \notin TransitionOperations)
    => /\ mode = lastMode
       /\ address = lastAddress
       /\ Live
       /\ mode \in CallableIn(lastOp)
       /\ i2cOwner = "handle"
       /\ delayOwner = "handle"
       /\ result.tag \in {"Ok", "I2c", "ChecksumMismatch"}
       /\ ENABLED release
       /\ WithinBound => ENABLED set_ambient_pressure

\* a read_measurement follows an operation the bus rejected the write of
C32_Witness ==
    /\ lastOp = "read_measurement"
    /\ lastStart = 1
    /\ bus[1].outcome = "NoAcknowledge"
    /\ mode = "Measuring"
    /\ result.tag = "ChecksumMismatch"

----------------------------------------------------------------------------
(* C33: a mode transition (start_periodic_measurement,                     *)
(* start_low_power_periodic_measurement, measure_single_shot,              *)
(* measure_single_shot_rht_only, stop_periodic_measurement) that fails     *)
(* consumes the handle: after the error there is no handle in either mode, *)
(* the transport and the delay are dropped with it, and no operation, not  *)
(* even release, can be invoked; so a failed start never gives a Measuring *)
(* handle and a failed stop never an Idle one.                             *)
C33_FailedTransitionConsumes ==
    /\ (lastOp \in TransitionOperations /\ result.tag # "Ok")
       => /\ mode = "Dropped"
          /\ ~Live
          /\ i2cOwner = "dropped"
          /\ delayOwner = "dropped"
          /\ result.tag = "I2c"
    /\ mode = "Dropped"
       => /\ lastOp \in TransitionOperations
          /\ result.tag # "Ok"
          /\ ~ENABLED release
          /\ ~ENABLED Next

C33_Witness ==
    /\ lastOp = "stop_periodic_measurement"
    /\ lastMode = "Measuring"
    /\ result = I2cError("NoAcknowledge")
    /\ mode = "Dropped"
    /\ ops = 1

----------------------------------------------------------------------------
(* C34: release hands the transport back to the caller, from an Idle and   *)
(* from a Measuring handle, without any bus write, read or wait (it sends  *)
(* no stop command when the handle is Measuring), and it consumes the      *)
(* handle: once released, no operation of the handle can be invoked.       *)
C34_ReleaseIsSilentAndFinal ==
    /\ lastOp = "release"
       => /\ lastMode \in {"Idle", "Measuring"}
          /\ LastCalls = <<>>
          /\ result = Ok("i2c")
          /\ i2cOwner = "caller"
          /\ mode = "Released"
          /\ ~Live
    /\ mode = "Released"
       => /\ lastOp = "release"
          /\ ~ENABLED Next

C34_Witness ==
    /\ lastOp = "release"
    /\ lastMode = "Measuring"
    /\ i2cOwner = "caller"
    /\ ops = 1
    /\ Len(bus) = 2

----------------------------------------------------------------------------
(* C35: the checksum detects every corruption of one bit of a checksummed  *)
(* word: for every 16-bit word w and each of the 24 bit positions of the   *)
(* three wire bytes (high byte of w, low byte of w, compute of the two),   *)
(* buffer_to_word of the bytes with that one bit inverted fails with       *)
(* ChecksumMismatch and returns no word.                                   *)
C35_SingleBitCorruptionDetected ==
    lastOp = "corrupted_buffer_to_word"
    => /\ result.tag = "ChecksumMismatch"
       /\ result.actual # result.expected

\* the lowest bit of the checksum of 0xbeef is inverted
C35_Witness ==
    /\ lastOp = "corrupted_buffer_to_word"
    /\ lastInput.value = <<48879, 23>>
    /\ result = ChecksumMismatch(146, 147)

----------------------------------------------------------------------------
(* C36: writing and reading a checksummed word are inverse: for every      *)
(* 16-bit word w, the three payload bytes that a write-word sequence and a *)
(* send-with-fetch sequence write for w (high byte of w, low byte of w,    *)
(* compute of the two) are accepted by buffer_to_word, which returns w.    *)
C36_WrittenWordReadsBack ==
    lastOp \in {"WriteWordSequence_buffer_to_word",
                "SendCommandAndFetchResultSequence_buffer_to_word"}
    => result = Ok(lastInput.value)

C36_Witness ==
    /\ lastOp = "WriteWordSequence_buffer_to_word"
    /\ lastInput.value = 48879
    /\ result = Ok(48879)

----------------------------------------------------------------------------
(* C37: the conversions from a value to the word written, those of         *)
(* set_sensor_altitude, set_ambient_pressure, set_temperature_offset and   *)
(* perform_forced_recalibration, accept every value and never wrap: a      *)
(* value below zero gives the word 0, a value that scales to 65536 or more *)
(* gives the word 0xffff, and the command still writes its register, that  *)
(* word and the word's checksum to the bus.                                *)

\* how many of the model's steps make one step of the word
StepsPerWord(kind) == IF kind = "temperature_offset" THEN 175 ELSE Fraction

SaturatedWord(kind, value) ==
    IF value < 0 THEN 0
    ELSE IF value >= 65536 * StepsPerWord(kind) THEN 65535
    ELSE value \div StepsPerWord(kind)

C37_ConversionsSaturate ==
    /\ lastOp \in {"SetSensorAltitude_preprocess",
                   "SetAmbientPressure_preprocess",
                   "SetTemperatureOffset_preprocess",
                   "PerformForcedRecalibration_preprocess"}
       => /\ result \in 0..65535
          /\ lastInput.value < 0 => result = 0
          /\ lastInput.value >= 65536 * StepsPerWord(lastInput.kind)
                => result = 65535
    /\ lastOp \in {"SetSensorAltitude_execute", "SetAmbientPressure_execute",
                   "SetTemperatureOffset_execute",
                   "PerformForcedRecalibration_execute"}
       => LET write == result.calls[1]
              word == SaturatedWord(lastInput.kind, lastInput.value)
          IN  /\ write.kind = "write"
              /\ Len(write.data) = 5
              /\ write.data[3] * 256 + write.data[4] = word
              /\ write.data[5] = compute(<<write.data[3], write.data[4]>>)
              /\ result.out.tag = "Ok"

C37_Witness ==
    /\ lastOp = "SetSensorAltitude_execute"
    /\ lastInput.value = 100000 * Fraction
    /\ result.calls[1] = WriteCall(98, <<36, 39, 255, 255, 172>>, "Ok")

----------------------------------------------------------------------------
(* Termination of one execution *)

\* Command::execute has been called
Invoked == lastOp \in Commands

\* Command::execute has returned, with a value or an error
Returned == Invoked /\ result.tag # "Running"

\* the capability calls of the kind that have returned
CallsOfKind(kind) == {index \in 1..Len(bus) : bus[index].kind = kind}

\* one write at most, then one wait at most, then one read at most
AtMostOneWriteWaitRead ==
    /\ Len(bus) <= 3
    /\ Cardinality(CallsOfKind("write")) <= 1
    /\ Cardinality(CallsOfKind("wait")) <= 1
    /\ Cardinality(CallsOfKind("read")) <= 1
    /\ Len(bus) >= 1 => bus[1].kind = "write"
    /\ Len(bus) >= 2 => bus[2].kind = "wait"
    /\ Len(bus) >= 3 => bus[3].kind = "read"

\* C38: every execution of a command that is invoked eventually returns,
\* with a value or an error, provided each transport and delay call
\* returns; at no point has it made more than one write, one wait and one
\* read, and once it has returned it makes no further call.
C38_EveryInvocationReturns ==
    [](AtMostOneWriteWaitRead /\ (Returned => ~ENABLED ExecutionNext))
        /\ (Invoked ~> Returned)

\* the data-ready command answers "not ready" after one write, one wait
\* and one read: the execution returns false and asks no second time
C38_Witness ==
    /\ lastOp = "GetDataReadyStatus"
    /\ result = Ok(FALSE)
    /\ bus = <<WriteCall(DEFAULT_ADDRESS, <<228, 184>>, "Ok"), WaitCall(1),
               ReadCall(DEFAULT_ADDRESS, <<128, 0, 162>>, "Ok")>>

====
